---- MODULE Spec2Model ----
(***************************************************************************)
(* A model of the consistency core of framerate-server: the relational    *)
(* store (PostgreSQL at READ COMMITTED, the driver's default) and the      *)
(* service operations that run statements against it.  A request is a      *)
(* process; each statement the service awaits is one step; a transaction   *)
(* keeps its writes private until it commits and holds the row locks the   *)
(* store gives it.  Nullable columns are sets: {} is NULL, {v} a value.    *)
(***************************************************************************)
EXTENDS Integers, Sequences, FiniteSets, TLC

\* The users, the list ids a request may name, and the request processes.
Users == {"u1", "u2"}
ListIds == {1, 2}
Fields == {"like", "save"}
MediaTypes == {"movie", "tv"}
MediaIds == {10}
Procs == {"p1", "p2"}

\* A list name of 101 characters.
LongName == "aaaaaaaaaaaaaaaaaaaaaaaaaaaaaaaaaaaaaaaaaaaaaaaaaaaaaaaaaaaaaaaaaaaaaaaaaaaaaaaaaaaaaaaaaaaaaaaaaaaaa"

\* The list names a request may carry.
Names == {"", "Heat", "Heat!", LongName}

\* Bounds of the model.
MaxItemId == 3
MaxTime == 3
MaxCount == 2
MaxHistory == 2
MaxViews == 3
MaxLists == 4

VARIABLES
  list,             \* table "list": id -> row
  listLikes,        \* table "list_likes": <<userId, listId>> -> number of rows
  listSaves,        \* table "list_saves": <<userId, listId>> -> number of rows
  listItem,         \* table "list_item": a set of rows
  listItemSeq,      \* the bigserial sequence of list_item.id: the last value
  listSlugHistory,  \* table "list_slug_history": rows in insertion order
  listView,         \* table "list_views": a set of rows
  review,           \* tables "movie_review" and "tv_review": key -> row
  clock,            \* the wall clock new Date() reads
  pc,               \* per request: the statement it is about to run
  req,              \* per request: the operation and its arguments
  txn,              \* per request: the uncommitted writes of its transaction
  ret,              \* per request: what the service call returned or threw
  quota,            \* per process: the requests it may still take ({}: any number)
  audit,            \* whether the history variables pre and last are kept
  pre,              \* per request: the committed store when the call began
  last              \* per request: the call it completed before this one

\* The committed store.
store == <<list, listLikes, listSaves, listItem, listSlugHistory, listView,
           review>>

\* What a statement of a transaction leaves alone.
client == <<req, quota, audit, pre, last>>

vars == <<list, listLikes, listSaves, listItem, listItemSeq, listSlugHistory,
          listView, review, clock, pc, req, txn, ret, quota, audit, pre, last>>

---------------------------------------------------------------------------
\* Values

JoinKeys == Users \X ListIds

EmptyJoin == [k \in JoinKeys |-> 0]

\* The review tables with no rows.
NoReviews == <<>>

NoReq == [op |-> "none"]
NoRet == [kind |-> "none"]
NoPre == [kind |-> "none"]
NoLast == [req |-> NoReq, ret |-> NoRet, pre |-> NoPre]

\* The writes and the local variables of a transaction callback.
NoTxn == [ins |-> 0,        \* join rows inserted
          del |-> 0,        \* join rows deleted
          upd |-> {},       \* the new version of the list row
          items |-> {},     \* list_item rows inserted
          hist |-> <<>>,    \* list_slug_history rows inserted
          rec |-> {},       \* updateList: listRecord
          slug |-> "",      \* generateSlug: uniqueSlug
          counter |-> 1,    \* generateSlug: counter
          now |-> 0,        \* trackUniqueView: now
          res |-> {}]       \* the callback's return value

\* A value the service returns, the `undefined` it returns, an error it throws.
Ok(v) == [kind |-> "ok", value |-> v]
Undefined == [kind |-> "undefined"]
Thrown(status) == [kind |-> "error", status |-> status]

Snapshot ==
  [list |-> list, listLikes |-> listLikes, listSaves |-> listSaves,
   listItem |-> listItem, listSlugHistory |-> listSlugHistory,
   listView |-> listView, review |-> review]

RECURSIVE SumOver(_, _)
SumOver(S, f) ==
  IF S = {} THEN 0
  ELSE LET x == CHOOSE y \in S : TRUE IN f[x] + SumOver(S \ {x}, f)

\* count(*) of a join table's rows for one list.
RowCount(tbl, l) == SumOver({k \in JoinKeys : k[2] = l}, tbl)

Range(s) == {s[i] : i \in DOMAIN s}

\* SQL's = on nullable columns: never true of a NULL.
SqlEq(a, b) == a # {} /\ b # {} /\ a = b

---------------------------------------------------------------------------
\* tablesMap of addListAction / deleteListAction

ActionTable(field) == IF field = "like" THEN listLikes ELSE listSaves

ActionCol(row, field) == IF field = "like" THEN row.likeCount ELSE row.saveCount

SetActionCol(row, field, v) ==
  IF field = "like" THEN [row EXCEPT !.likeCount = v]
  ELSE [row EXCEPT !.saveCount = v]

\* The object the service builds from the row the statement returned.
ActionResult(row, field) == Ok([field |-> field, count |-> ActionCol(row, field)])

---------------------------------------------------------------------------
\* The store: locks and visibility

InTxn(p) ==
  pc[p] \in {"a_insert", "a_select", "a_update",
             "d_delete", "d_select", "d_update",
             "i_owned", "i_existing", "i_insert", "i_touch",
             "u_select", "u_history", "u_generate", "u_slug", "u_update", "commit"}

IsToggle(q) == req[q].op \in {"addListAction", "deleteListAction"}

SameKey(p, q) ==
  /\ IsToggle(q)
  /\ req[q].field = req[p].field
  /\ req[q].userId = req[p].userId
  /\ req[q].listId = req[p].listId

\* Another transaction has an uncommitted insert of this request's join key.
KeyInsertedByOther(p) ==
  \E q \in Procs \ {p} : InTxn(q) /\ SameKey(p, q) /\ txn[q].ins > 0

\* Another transaction has an uncommitted delete of this request's join row.
KeyDeletedByOther(p) ==
  \E q \in Procs \ {p} : InTxn(q) /\ SameKey(p, q) /\ txn[q].del > 0

\* Another transaction has an uncommitted update of the list row.
RowLockedByOther(p, l) ==
  \E q \in Procs \ {p} : InTxn(q) /\ txn[q].upd # {} /\ req[q].listId = l

\* Another transaction has an uncommitted insert of a row that references the
\* list row (its foreign-key check holds a share lock on the list row).
RowReferencedByOther(p, l) ==
  \E q \in Procs \ {p} :
    /\ InTxn(q)
    /\ req[q].listId = l
    /\ txn[q].ins > 0 \/ txn[q].items # {} \/ txn[q].hist # <<>>

---------------------------------------------------------------------------
\* Expressions of the statements

\* INSERT ... ON CONFLICT (user_id, list_id) DO NOTHING RETURNING: the number
\* of rows it inserts, given the committed rows with that key (the unique
\* index uniqueUserList / uniqueSavedList is the arbiter).
InsertRegardless(existing) == 1

OnConflictDoNothing(existing) == IF existing > 0 THEN 0 ELSE 1

NoIncrement(c) == c

\* sql`${actionCol} + 1`
PlusOne(c) == c + 1

Greatest(a, b) == IF a >= b THEN a ELSE b

MinusOne(c) == c - 1

\* sql`GREATEST(${actionCol} - 1, 0)`
MinusOneFloor(c) == Greatest(c - 1, 0)

---------------------------------------------------------------------------
\* Requests

FirstStatement(op) ==
  CASE op = "addListAction" -> "a_insert"
    [] op = "deleteListAction" -> "d_delete"
    [] op = "addListItem" -> "i_owned"
    [] op = "authorizeOwner" -> "z_select"
    [] op = "updateList" -> "u_select"
    [] op = "deleteList" -> "x_select"
    [] op = "deleteListItem" -> "r_delete"
    [] op = "trackUniqueView" -> "v_guard"
    [] op = "getList" -> "g_data"
    [] op = "createList" -> "c_parse"
    [] op = "addReview" -> "w_validate"
    [] op = "getReview" -> "w_get"
    [] op = "updateReview" -> "w_update"
    [] op = "getAvgRating" -> "w_avg"
    [] op = "deleteReview" -> "w_delete"

\* A request arrives and the route calls the service.
Begin(p, r) ==
  /\ pc[p] = "idle"
  /\ quota[p] # {0}
  /\ quota' = [quota EXCEPT ![p] = {n - 1 : n \in quota[p]}]
  /\ req' = [req EXCEPT ![p] = r]
  /\ pc' = [pc EXCEPT ![p] = FirstStatement(r.op)]
  /\ txn' = [txn EXCEPT ![p] = NoTxn]
  /\ ret' = [ret EXCEPT ![p] = NoRet]
  /\ pre' = IF audit THEN [pre EXCEPT ![p] = Snapshot] ELSE pre
  /\ UNCHANGED <<store, listItemSeq, clock, audit, last>>

\* The error a failed transaction surfaces; `at` records, for the history
\* only, the statement the failure interrupted.
Aborted(at) == [kind |-> "error", status |-> 500, at |-> at]

\* The call throws; inside a transaction the driver issues ROLLBACK.
Throw(p, status) ==
  /\ pc' = [pc EXCEPT ![p] = "done"]
  /\ txn' = [txn EXCEPT ![p] = NoTxn]
  /\ ret' = [ret EXCEPT ![p] = Thrown(status)]

\* The call returns without a transaction.
Return(p, v) ==
  /\ pc' = [pc EXCEPT ![p] = "done"]
  /\ txn' = [txn EXCEPT ![p] = NoTxn]
  /\ ret' = [ret EXCEPT ![p] = v]

\* The next statement of the callback, with the transaction's new state.
Goto(p, label, t) ==
  /\ pc' = [pc EXCEPT ![p] = label]
  /\ txn' = [txn EXCEPT ![p] = t]
  /\ UNCHANGED ret

ToggleRequests ==
  [op : {"addListAction", "deleteListAction"},
   userId : Users, listId : ListIds, field : Fields]

\* PUT /actions/lists or DELETE /actions/lists.
BeginToggle(p) == \E r \in ToggleRequests : Begin(p, r)

---------------------------------------------------------------------------
\* addListAction

\* trx.insert(actionTable).values({userId, listId}).onConflictDoNothing()
AddInsert(p) ==
  /\ pc[p] = "a_insert"
  /\ ~KeyInsertedByOther(p) /\ ~KeyDeletedByOther(p)
  /\ LET r == req[p]
         inserted == OnConflictDoNothing(ActionTable(r.field)[<<r.userId, r.listId>>])
     IN IF r.listId \notin DOMAIN list
        THEN Throw(p, 500)          \* foreign key list_id -> list.id
        ELSE Goto(p, IF inserted = 0 THEN "a_select" ELSE "a_update",
                  [txn[p] EXCEPT !.ins = inserted])
  /\ UNCHANGED <<store, listItemSeq, clock, client>>

AddSelectConflictError(p) ==
  /\ pc[p] = "a_select"
  /\ Throw(p, 409)
  /\ UNCHANGED <<store, listItemSeq, clock, client>>

\* Already exists: select the current counts.
AddSelect(p) ==
  /\ pc[p] = "a_select"
  /\ LET l == req[p].listId
         current == IF l \in DOMAIN list THEN {list[l]} ELSE {}
     IN Goto(p, "commit", [txn[p] EXCEPT !.res = current])
  /\ UNCHANGED <<store, listItemSeq, clock, client>>

\* Fresh insert: update(list).set({[actionColName]: actionCol + 1}).returning()
AddUpdate(p) ==
  /\ pc[p] = "a_update"
  /\ ~RowLockedByOther(p, req[p].listId)
  /\ LET l == req[p].listId
         f == req[p].field
         updated == IF l \in DOMAIN list
                    THEN {SetActionCol(list[l], f, PlusOne(ActionCol(list[l], f)))}
                    ELSE {}
     IN Goto(p, "commit", [txn[p] EXCEPT !.upd = updated, !.res = updated])
  /\ UNCHANGED <<store, listItemSeq, clock, client>>

---------------------------------------------------------------------------
\* deleteListAction

DelDeleteAlwaysDecrement(p) ==
  /\ pc[p] = "d_delete"
  /\ ~KeyDeletedByOther(p)
  /\ LET r == req[p]
         deleted == ActionTable(r.field)[<<r.userId, r.listId>>]
     IN Goto(p, "d_update", [txn[p] EXCEPT !.del = deleted])
  /\ UNCHANGED <<store, listItemSeq, clock, client>>

\* trx.delete(actionTable).where(userId, listId).returning()
DelDelete(p) ==
  /\ pc[p] = "d_delete"
  /\ ~KeyDeletedByOther(p)
  /\ LET r == req[p]
         deleted == ActionTable(r.field)[<<r.userId, r.listId>>]
     IN Goto(p, IF deleted = 0 THEN "d_select" ELSE "d_update",
             [txn[p] EXCEPT !.del = deleted])
  /\ UNCHANGED <<store, listItemSeq, clock, client>>

\* No row deleted: select the current counts.
DelSelect(p) ==
  /\ pc[p] = "d_select"
  /\ LET l == req[p].listId
         current == IF l \in DOMAIN list THEN {list[l]} ELSE {}
     IN Goto(p, "commit", [txn[p] EXCEPT !.res = current])
  /\ UNCHANGED <<store, listItemSeq, clock, client>>

\* update(list).set({[actionColName]: GREATEST(actionCol - 1, 0)}).returning()
DelUpdate(p) ==
  /\ pc[p] = "d_update"
  /\ ~RowLockedByOther(p, req[p].listId)
  /\ LET l == req[p].listId
         f == req[p].field
         updated == IF l \in DOMAIN list
                    THEN {SetActionCol(list[l], f,
                                       MinusOneFloor(ActionCol(list[l], f)))}
                    ELSE {}
     IN Goto(p, "commit", [txn[p] EXCEPT !.upd = updated, !.res = updated])
  /\ UNCHANGED <<store, listItemSeq, clock, client>>

\* What the service returns after the transaction:
\* `if (!result) return undefined`, else the count of the field.
ToggleReturn(p) ==
  IF txn[p].res = {} THEN Undefined
  ELSE ActionResult(CHOOSE row \in txn[p].res : TRUE, req[p].field)

---------------------------------------------------------------------------
\* addListItem

\* The insert payload POST /list-items builds from its body.
ItemRequest(u, l, t, m) ==
  [op |-> "addListItem", userId |-> u, listId |-> l, mediaType |-> t,
   movieId |-> IF t = "movie" THEN {m} ELSE {},
   seriesId |-> IF t = "tv" THEN {m} ELSE {}]

ItemRequests ==
  {ItemRequest(u, l, t, m) :
     u \in Users, l \in ListIds, t \in MediaTypes, m \in MediaIds}

\* POST /list-items.
BeginItem(p) == \E r \in ItemRequests : Begin(p, r)

\* whereExisting: the row is this user's, on this list, of this media.
WhereExisting(row, r) ==
  /\ row.userId = r.userId
  /\ row.listId = r.listId
  /\ IF r.mediaType = "movie"
     THEN row.mediaType = "movie" /\ SqlEq(row.movieId, r.movieId)
     ELSE row.mediaType = "tv" /\ SqlEq(row.seriesId, r.seriesId)

\* uniqueIndex("uniqueListItem").on(listId, movieId, seriesId): two rows
\* collide when all three columns are equal, and a NULL equals nothing.
UniqueListItemConflict(a, b) ==
  /\ a.listId = b.listId
  /\ SqlEq(a.movieId, b.movieId)
  /\ SqlEq(a.seriesId, b.seriesId)

\* Another transaction has an uncommitted list_item row the index compares
\* equal to this one: the insert waits for that transaction.
ItemInsertedByOther(p, row) ==
  \E q \in Procs \ {p} :
    InTxn(q) /\ \E other \in txn[q].items : UniqueListItemConflict(row, other)

\* Verify ownership: select from list where id = listId and userId = userId.
ItemOwned(p) ==
  /\ pc[p] = "i_owned"
  /\ LET r == req[p]
         owned == r.listId \in DOMAIN list /\ list[r.listId].userId = r.userId
     IN IF ~owned THEN Throw(p, 403) ELSE Goto(p, "i_existing", txn[p])
  /\ UNCHANGED <<store, listItemSeq, clock, client>>

ItemExistingSkipped(p) ==
  /\ pc[p] = "i_existing"
  /\ Goto(p, "i_insert", txn[p])
  /\ UNCHANGED <<store, listItemSeq, clock, client>>

\* Check if the item already exists; `[existing]` is the first row returned.
ItemExisting(p) ==
  /\ pc[p] = "i_existing"
  /\ LET matches == {row \in listItem : WhereExisting(row, req[p])}
     IN IF matches = {}
        THEN Goto(p, "i_insert", txn[p])
        ELSE \E existing \in matches :
               Goto(p, "commit",
                    [txn[p] EXCEPT !.res = {[created |-> FALSE, item |-> existing]}])
  /\ UNCHANGED <<store, listItemSeq, clock, client>>

\* trx.insert(listItem).values(data).returning()
ItemInsert(p) ==
  /\ pc[p] = "i_insert"
  /\ listItemSeq < MaxItemId
  /\ LET r == req[p]
         row == [id |-> listItemSeq + 1, userId |-> r.userId,
                 listId |-> r.listId, mediaType |-> r.mediaType,
                 movieId |-> r.movieId, seriesId |-> r.seriesId]
     IN /\ ~ItemInsertedByOther(p, row)
        /\ IF \/ r.listId \notin DOMAIN list
              \/ \E other \in listItem : UniqueListItemConflict(row, other)
           THEN Throw(p, 500)
           ELSE Goto(p, "i_touch",
                     [txn[p] EXCEPT !.items = {row},
                                    !.res = {[created |-> TRUE, item |-> row]}])
  /\ listItemSeq' = listItemSeq + 1
  /\ UNCHANGED <<store, clock, client>>

\* Refresh the list updatedAt field: set({updatedAt: new Date()}).
ItemTouch(p) ==
  /\ pc[p] = "i_touch"
  /\ ~RowLockedByOther(p, req[p].listId)
  /\ LET l == req[p].listId
         updated == IF l \in DOMAIN list
                    THEN {[list[l] EXCEPT !.updatedAt = {clock}]}
                    ELSE {}
     IN Goto(p, "commit", [txn[p] EXCEPT !.upd = updated])
  /\ UNCHANGED <<store, listItemSeq, clock, client>>

\* `inserted ? {created: true, item: inserted} : undefined`, or the existing item.
ItemReturn(p) ==
  IF txn[p].res = {} THEN Undefined ELSE Ok(CHOOSE v \in txn[p].res : TRUE)

---------------------------------------------------------------------------
\* deleteListItem

RemoveRequests ==
  [op : {"deleteListItem"}, userId : Users, listItemId : 0..MaxItemId]

\* DELETE /list-items/:id.
BeginRemove(p) == \E r \in RemoveRequests : Begin(p, r)

DeleteListItemAnyOwner(p) ==
  /\ pc[p] = "r_delete"
  /\ LET deleted == {row \in listItem : row.id = req[p].listItemId}
     IN /\ listItem' = listItem \ deleted
        /\ Return(p, IF deleted = {} THEN Undefined
                     ELSE Ok(CHOOSE row \in deleted : TRUE))
  /\ UNCHANGED <<list, listLikes, listSaves, listSlugHistory, listView,
                 listItemSeq, review, clock, client>>

\* delete from list_item where userId and id, returning the row; `[result]`
\* is the first row returned.
DeleteListItem(p) ==
  /\ pc[p] = "r_delete"
  /\ LET deleted == {row \in listItem : /\ row.userId = req[p].userId
                                        /\ row.id = req[p].listItemId}
     IN /\ listItem' = listItem \ deleted
        /\ Return(p, IF deleted = {} THEN Undefined
                     ELSE Ok(CHOOSE row \in deleted : TRUE))
  /\ UNCHANGED <<list, listLikes, listSaves, listSlugHistory, listView,
                 listItemSeq, review, clock, client>>

---------------------------------------------------------------------------
\* trackUniqueView

\* The clock counts half days: 24 * 60 * 60 * 1000 ms are two ticks.
DayMs == 2

Addresses == {"10.0.0.1"}

\* The viewers: a signed-in user, or "" for a visitor without a session.
Viewers == {"u1", "u2", ""}

\* getHashedValue: the sha256 hex digest, one per input.
GetHashedValue(v) == "sha256:" \o v

\* listId may be any number; ipAddress {} stands for null.
ViewRequests ==
  [op : {"trackUniqueView"}, listId : {-1, 0, 1},
   ipAddress : {{}} \cup {{a} : a \in Addresses}, userId : Viewers]

BeginView(p) == \E r \in ViewRequests : Begin(p, r)

InvalidInput ==
  [success |-> FALSE, alreadyViewed |-> FALSE,
   message |-> "Invalid input: unable to store view."]

AlreadyViewed ==
  [success |-> TRUE, alreadyViewed |-> TRUE,
   message |-> "View already logged within the last 24 hours."]

ViewLogged ==
  [success |-> TRUE, alreadyViewed |-> FALSE,
   message |-> "View logged successfully."]

ViewError ==
  [success |-> FALSE, alreadyViewed |-> FALSE,
   message |-> "An error occurred while logging the view."]

HashedIp(r) == {GetHashedValue(a) : a \in r.ipAddress}

ViewWhereNullMatches(row, r, now) ==
  /\ row.listId = r.listId
  /\ row.createdAt >= now - DayMs
  /\ \/ row.userId = {r.userId} \ {""}
     \/ row.ipAddress = HashedIp(r)

\* whereClause: the list, the window, and userId or ipAddress, whichever
\* the call has.
ViewWhere(row, r, now) ==
  /\ row.listId = r.listId
  /\ row.createdAt >= now - DayMs
  /\ \/ r.userId # "" /\ SqlEq(row.userId, {r.userId})
     \/ SqlEq(row.ipAddress, HashedIp(r))

\* The call returns; its locals stay as they were.
ViewReturn(p, v) ==
  /\ pc' = [pc EXCEPT ![p] = "done"]
  /\ ret' = [ret EXCEPT ![p] = v]
  /\ UNCHANGED txn

\* The input check; `now` is read.
ViewGuard(p) ==
  /\ pc[p] = "v_guard"
  /\ IF req[p].listId = 0 \/ (req[p].userId = "" /\ req[p].ipAddress = {})
     THEN ViewReturn(p, Ok(InvalidInput))
     ELSE Goto(p, "v_select", [txn[p] EXCEPT !.now = clock])
  /\ UNCHANGED <<store, listItemSeq, clock, client>>

ViewSelectBlind(p) ==
  /\ pc[p] = "v_select"
  /\ Goto(p, "v_insert", txn[p])
  /\ UNCHANGED <<store, listItemSeq, clock, client>>

\* existingView: the rows of the window for this identity.
ViewSelect(p) ==
  /\ pc[p] = "v_select"
  /\ IF \E row \in listView : ViewWhere(row, req[p], txn[p].now)
     THEN ViewReturn(p, Ok(AlreadyViewed))
     ELSE Goto(p, "v_insert", txn[p])
  /\ UNCHANGED <<store, listItemSeq, clock, client>>

ViewInsertUnchecked(p) ==
  /\ pc[p] = "v_insert"
  /\ Cardinality(listView) < MaxViews
  /\ listView' = listView \cup
       {[id |-> Cardinality(listView) + 1,
         listId |-> req[p].listId,
         userId |-> {req[p].userId} \ {""},
         ipAddress |-> HashedIp(req[p]),
         createdAt |-> clock]}
  /\ ViewReturn(p, Ok(ViewLogged))
  /\ UNCHANGED <<list, listLikes, listSaves, listItem, listSlugHistory,
                 listItemSeq, review, clock, client>>

\* insert into list_views; createdAt defaults to now(). Rows are never
\* deleted, so the row count numbers them. A list_id that references no
\* list is refused and the catch block returns the error result.
ViewInsert(p) ==
  /\ pc[p] = "v_insert"
  /\ Cardinality(listView) < MaxViews
  /\ IF req[p].listId \in DOMAIN list
     THEN /\ listView' = listView \cup
               {[id |-> Cardinality(listView) + 1,
                 listId |-> req[p].listId,
                 userId |-> {req[p].userId} \ {""},
                 ipAddress |-> HashedIp(req[p]),
                 createdAt |-> clock]}
          /\ ViewReturn(p, Ok(ViewLogged))
     ELSE /\ ViewReturn(p, Ok(ViewError))
          /\ UNCHANGED listView
  /\ UNCHANGED <<list, listLikes, listSaves, listItem, listSlugHistory,
                 listItemSeq, review, clock, client>>

\* A task slot: a process that takes no requests of its own and runs the
\* calls a handler starts without awaiting them.
IsSlot(q) == quota[q] = {0}

ViewFailUncaught(q) ==
  /\ pc[q] \in {"v_select", "v_insert"}
  /\ pc' = [pc EXCEPT ![q] = "done"]
  /\ ret' = [p \in Procs |-> IF p = q THEN Ok(ViewError)
                              ELSE IF ~IsSlot(p) /\ req[p].op = "getList"
                                   THEN Thrown(500) ELSE ret[p]]
  /\ UNCHANGED <<store, listItemSeq, clock, client, txn>>

\* The select or the insert fails in storage; the catch block logs the
\* error and returns the error result.
ViewFail(p) ==
  /\ pc[p] \in {"v_select", "v_insert"}
  /\ ViewReturn(p, Ok(ViewError))
  /\ UNCHANGED <<store, listItemSeq, clock, client>>

---------------------------------------------------------------------------
\* GET /user/:username/lists/:slug

Slugs == {"heat", "none"}

\* A user's username is written as the user's id; `viewer` is the session's
\* user, "" without a session; ipAddress {} is a request without an address.
GetRequests ==
  [op : {"getList"}, username : Users, slug : Slugs, viewer : Viewers,
   ipAddress : {{}} \cup {{a} : a \in Addresses}]

\* The request is admitted while a task slot is free.
BeginGet(p) ==
  /\ \E q \in Procs : IsSlot(q) /\ pc[q] = "idle"
  /\ \E r \in GetRequests : Begin(p, r)

\* What getListData returns for the list row l when every statement of it
\* reads the same state.
ListData(snapshot, l, viewer) ==
  [list |-> snapshot.list[l],
   id |-> l,
   isLiked |-> viewer # "" /\ snapshot.listLikes[<<viewer, l>>] > 0,
   isSaved |-> viewer # "" /\ snapshot.listSaves[<<viewer, l>>] > 0,
   listItems |-> {row \in snapshot.listItem : row.listId = l}]

\* The lists getListData's select returns.
ListsBySlug(snapshot, username, slug) ==
  {l \in DOMAIN snapshot.list :
     snapshot.list[l].userId = username /\ snapshot.list[l].slug = slug}

\* getListData's first statement: select from list join user; `[results]`
\* is the first row, 404 when there is none. isLiked and isSaved stay false
\* unless a later statement finds the row.
GetListData(p) ==
  /\ pc[p] = "g_data"
  /\ LET found == ListsBySlug(Snapshot, req[p].username, req[p].slug)
     IN IF found = {} THEN Throw(p, 404)
        ELSE \E l \in found :
               Goto(p, "g_items",
                    [txn[p] EXCEPT !.res = {[list |-> list[l], id |-> l,
                                             isLiked |-> FALSE,
                                             isSaved |-> FALSE,
                                             listItems |-> {}]}])
  /\ UNCHANGED <<store, listItemSeq, clock, client>>

\* await getListItems(listResult.id): the items of the list as they are now.
\* Without a session the result is returned with both flags false.
GetListItems(p) ==
  /\ pc[p] = "g_items"
  /\ \E results \in txn[p].res :
       Goto(p, IF req[p].viewer # "" THEN "g_liked" ELSE "g_respond",
            [txn[p] EXCEPT !.res =
               {[results EXCEPT !.listItems =
                   {row \in listItem : row.listId = results.id}]}])
  /\ UNCHANGED <<store, listItemSeq, clock, client>>

\* await getLikeStatus(userSession.id, listResult.id)
GetLikeStatus(p) ==
  /\ pc[p] = "g_liked"
  /\ \E results \in txn[p].res :
       Goto(p, "g_saved",
            [txn[p] EXCEPT !.res =
               {[results EXCEPT !.isLiked =
                   listLikes[<<req[p].viewer, results.id>>] > 0]}])
  /\ UNCHANGED <<store, listItemSeq, clock, client>>

\* await getSaveStatus(userSession.id, listResult.id)
GetSaveStatus(p) ==
  /\ pc[p] = "g_saved"
  /\ \E results \in txn[p].res :
       Goto(p, "g_respond",
            [txn[p] EXCEPT !.res =
               {[results EXCEPT !.isSaved =
                   listSaves[<<req[p].viewer, results.id>>] > 0]}])
  /\ UNCHANGED <<store, listItemSeq, clock, client>>

\* A statement of getListData fails in storage: the catch blocks of
\* getListItems, getLikeStatus and getSaveStatus throw HttpError(500), and
\* the rejection of the first select surfaces as a server error as well.
GetListFail(p) ==
  /\ pc[p] \in {"g_data", "g_items", "g_liked", "g_saved"}
  /\ pc' = [pc EXCEPT ![p] = "done"]
  /\ txn' = [txn EXCEPT ![p] = NoTxn]
  /\ ret' = [ret EXCEPT ![p] = Aborted(pc[p])]
  /\ UNCHANGED <<store, listItemSeq, clock, client>>

\* The response of the handler.
Response(results) == Ok([status |-> 200, data |-> results, error |-> {}])

\* The call trackUniqueView(listId, ipAddress, session?.user?.id).
TrackCall(r, results) ==
  [op |-> "trackUniqueView", listId |-> results.id,
   ipAddress |-> r.ipAddress, userId |-> r.viewer]

\* With an address, trackUniqueView is called and not awaited: it runs in a
\* task slot from its first statement. The handler returns its response.
GetRespond(p) ==
  /\ pc[p] = "g_respond"
  /\ \E results \in txn[p].res :
       IF req[p].ipAddress # {}
       THEN \E q \in Procs :
              /\ IsSlot(q) /\ pc[q] = "idle"
              /\ pc' = [pc EXCEPT ![p] = "done", ![q] = "v_guard"]
              /\ req' = [req EXCEPT ![q] = TrackCall(req[p], results)]
              /\ txn' = [txn EXCEPT ![p] = NoTxn, ![q] = NoTxn]
              /\ ret' = [ret EXCEPT ![p] = Response(results), ![q] = NoRet]
              /\ pre' = IF audit THEN [pre EXCEPT ![q] = Snapshot] ELSE pre
       ELSE /\ Return(p, Response(results))
            /\ UNCHANGED <<req, pre>>
  /\ UNCHANGED <<store, listItemSeq, clock, quota, audit, last>>

---------------------------------------------------------------------------
\* authorizeOwner

AuthorizeRequests ==
  [op : {"authorizeOwner"}, userId : Users \cup {""}, listId : ListIds \cup {0}]

AuthorizeOwnerForbidden(resourceId, userId) ==
  IF userId = "" THEN Thrown(401)
  ELSE IF resourceId <= 0 \/ resourceId \notin DOMAIN list THEN Thrown(404)
  ELSE IF list[resourceId].userId # userId THEN Thrown(403)
  ELSE Ok([ownerId |-> list[resourceId].userId])

\* What authorizeOwner("list", resourceId, userId) returns or throws.
AuthorizeOwnerResult(resourceId, userId) ==
  IF userId = "" THEN Thrown(401)
  ELSE IF resourceId <= 0 THEN Thrown(404)
  ELSE IF resourceId \notin DOMAIN list \/ list[resourceId].userId # userId
       THEN Thrown(404)
       ELSE Ok([ownerId |-> list[resourceId].userId])

AuthorizeOwner(p) ==
  /\ pc[p] = "z_select"
  /\ Return(p, AuthorizeOwnerResult(req[p].listId, req[p].userId))
  /\ UNCHANGED <<store, listItemSeq, clock, client>>

---------------------------------------------------------------------------
\* generateSlug / slugExists

\* slugify(title, {lower: true, strict: true}) on the titles of the model.
Slugify(title) ==
  CASE title = "Heat" -> "heat"
    [] title = "Heat!" -> "heat"
    [] title = "The Matrix" -> "the-matrix"
    [] OTHER -> title

\* title.length > 100 is rejected.
MaxTitleLength == 100

\* The guard of generateSlug: a bad title throws HttpError(400).
InvalidTitle(title) == Len(title) > MaxTitleLength \/ title = ""

\* slugExists(uniqueSlug, "list", userId): the rows of
\*   list INNER JOIN list_slug_history ON list_slug_history.old_slug = uniqueSlug
\*   WHERE (list.slug = uniqueSlug OR old_slug = uniqueSlug) AND list.user_id = userId
\* read from the committed store (db, not the caller's transaction).
SlugExists(uniqueSlug, userId) ==
  LET joined == {<<l, i>> \in (DOMAIN list) \X (DOMAIN listSlugHistory) :
                   listSlugHistory[i].oldSlug = uniqueSlug}
      result == {j \in joined :
                   /\ \/ list[j[1]].slug = uniqueSlug
                      \/ listSlugHistory[j[2]].oldSlug = uniqueSlug
                   /\ list[j[1]].userId = userId}
  IN result # {}

\* `${baseSlug}-${counter}`
Suffixed(baseSlug, counter) == baseSlug \o "-" \o ToString(counter)

---------------------------------------------------------------------------
\* POST /lists: generateSlug, then createList

\* A list row as createList inserts it (the defaults of the schema).
NewList(u, name, slug) ==
  [userId |-> u, name |-> name, slug |-> slug,
   likeCount |-> 0, saveCount |-> 0, updatedAt |-> {}]

ListNames == {"The Matrix", " Heat", ""}

CreateRequests == [op : {"createList"}, userId : Users, name : ListNames]

BeginCreate(p) == \E r \in CreateRequests : Begin(p, r)

\* z.string().trim() on the names of the model.
Trim(name) ==
  CASE name = " Heat" -> "Heat"
    [] OTHER -> name

\* clientListSchema: the trimmed name has 1 to 100 characters.
ParsedListName(name) ==
  IF Len(Trim(name)) >= 1 /\ Len(Trim(name)) <= MaxTitleLength
  THEN {Trim(name)} ELSE {}

\* list.id is a bigserial; no list is deleted where lists are created, so
\* the next value follows the greatest id.
NextListId ==
  IF DOMAIN list = {} THEN 1
  ELSE (CHOOSE l \in DOMAIN list : \A k \in DOMAIN list : k <= l) + 1

\* clientListSchema.safeParse(body); 400 when it fails.
CreateParse(p) ==
  /\ pc[p] = "c_parse"
  /\ IF ParsedListName(req[p].name) = {}
     THEN Throw(p, 400)
     ELSE Goto(p, "c_generate", txn[p])
  /\ UNCHANGED <<store, listItemSeq, clock, client>>

\* generateSlug(listName, "list", user.id): the guard and the base slug.
CreateGenerate(p) ==
  /\ pc[p] = "c_generate"
  /\ \E listName \in ParsedListName(req[p].name) :
       IF InvalidTitle(listName)
       THEN Throw(p, 400)
       ELSE Goto(p, "c_slug", [txn[p] EXCEPT !.slug = Slugify(listName),
                                            !.counter = 1])
  /\ UNCHANGED <<store, listItemSeq, clock, client>>

CreateSlugSameSuffix(p) ==
  /\ pc[p] = "c_slug"
  /\ \E listName \in ParsedListName(req[p].name) :
       IF SlugExists(txn[p].slug, req[p].userId)
       THEN Goto(p, "c_slug",
                 [txn[p] EXCEPT !.slug = Suffixed(Slugify(listName), txn[p].counter)])
       ELSE Goto(p, "c_insert", txn[p])
  /\ UNCHANGED <<store, listItemSeq, clock, client>>

\* One turn of `while (await slugExists(uniqueSlug, contentType, userId))`.
CreateSlug(p) ==
  /\ pc[p] = "c_slug"
  /\ \E listName \in ParsedListName(req[p].name) :
       IF SlugExists(txn[p].slug, req[p].userId)
       THEN Goto(p, "c_slug",
                 [txn[p] EXCEPT !.slug = Suffixed(Slugify(listName), txn[p].counter),
                                !.counter = txn[p].counter + 1])
       ELSE Goto(p, "c_insert", txn[p])
  /\ UNCHANGED <<store, listItemSeq, clock, client>>

\* createList({userId, name, slug}): insert into list, returning the row.
CreateInsert(p) ==
  /\ pc[p] = "c_insert"
  /\ NextListId <= MaxLists
  /\ \E listName \in ParsedListName(req[p].name) :
       LET row == NewList(req[p].userId, listName, txn[p].slug)
       IN /\ list' = [l \in DOMAIN list \cup {NextListId} |->
                       IF l \in DOMAIN list THEN list[l] ELSE row]
          /\ Return(p, Ok([type |-> "list", id |-> NextListId, row |-> row]))
  /\ UNCHANGED <<listLikes, listSaves, listItem, listSlugHistory, listView,
                 listItemSeq, review, clock, client>>

---------------------------------------------------------------------------
\* updateList

UpdateRequests ==
  [op : {"updateList"}, userId : Users, listId : ListIds, name : Names]

\* PATCH /lists/:listId.
BeginUpdate(p) == \E r \in UpdateRequests : Begin(p, r)

\* select from list where userId and id; 404 when there is no such row.
UpdSelect(p) ==
  /\ pc[p] = "u_select"
  /\ LET r == req[p]
         found == r.listId \in DOMAIN list /\ list[r.listId].userId = r.userId
     IN IF ~found THEN Throw(p, 404)
        ELSE LET listRecord == list[r.listId]
             IN IF r.name # "" /\ r.name # listRecord.name
                THEN Goto(p, "u_history", [txn[p] EXCEPT !.rec = {listRecord}])
                ELSE Goto(p, "commit", [txn[p] EXCEPT !.rec = {listRecord},
                                                      !.res = {listRecord}])
  /\ UNCHANGED <<store, listItemSeq, clock, client>>

UpdHistorySkipped(p) ==
  /\ pc[p] = "u_history"
  /\ Goto(p, "u_generate", txn[p])
  /\ UNCHANGED <<store, listItemSeq, clock, client>>

\* trx.insert(listSlugHistory).values({listId, oldSlug})
UpdHistory(p) ==
  /\ pc[p] = "u_history"
  /\ Len(listSlugHistory) < MaxHistory
  /\ LET r == req[p]
         listRecord == CHOOSE row \in txn[p].rec : TRUE
     IN IF r.listId \notin DOMAIN list
        THEN Throw(p, 500)          \* foreign key list_id -> list.id
        ELSE Goto(p, "u_generate",
                  [txn[p] EXCEPT !.hist = <<[listId |-> r.listId,
                                             oldSlug |-> listRecord.slug]>>])
  /\ UNCHANGED <<store, listItemSeq, clock, client>>

UpdGenerateKeepsHistory(p) ==
  /\ pc[p] = "u_generate"
  /\ IF InvalidTitle(req[p].name)
     THEN /\ Throw(p, 400)
          /\ listSlugHistory' = listSlugHistory \o txn[p].hist
     ELSE /\ Goto(p, "u_slug", [txn[p] EXCEPT !.slug = Slugify(req[p].name),
                                             !.counter = 1])
          /\ UNCHANGED listSlugHistory
  /\ UNCHANGED <<list, listLikes, listSaves, listItem, listView, review,
                 listItemSeq, clock, client>>

\* generateSlug(updates.name, "list", userId): the guard and the base slug.
UpdGenerate(p) ==
  /\ pc[p] = "u_generate"
  /\ IF InvalidTitle(req[p].name)
     THEN Throw(p, 400)
     ELSE Goto(p, "u_slug", [txn[p] EXCEPT !.slug = Slugify(req[p].name),
                                          !.counter = 1])
  /\ UNCHANGED <<store, listItemSeq, clock, client>>

\* One turn of `while (await slugExists(uniqueSlug, contentType, userId))`.
UpdSlug(p) ==
  /\ pc[p] = "u_slug"
  /\ IF SlugExists(txn[p].slug, req[p].userId)
     THEN Goto(p, "u_slug",
               [txn[p] EXCEPT !.slug = Suffixed(Slugify(req[p].name), txn[p].counter),
                              !.counter = txn[p].counter + 1])
     ELSE Goto(p, "u_update", txn[p])
  /\ UNCHANGED <<store, listItemSeq, clock, client>>

\* update(list).set({name, slug: newSlug, updatedAt: new Date()}).returning()
UpdUpdate(p) ==
  /\ pc[p] = "u_update"
  /\ ~RowLockedByOther(p, req[p].listId)
  /\ LET r == req[p]
         found == r.listId \in DOMAIN list /\ list[r.listId].userId = r.userId
         updateResult == IF found
                         THEN {[list[r.listId] EXCEPT !.name = r.name,
                                                      !.slug = txn[p].slug,
                                                      !.updatedAt = {clock}]}
                         ELSE {}
     IN Goto(p, "commit",
             [txn[p] EXCEPT !.upd = updateResult,
                            !.res = IF found THEN updateResult ELSE txn[p].rec])
  /\ UNCHANGED <<store, listItemSeq, clock, client>>

\* { type: "list", ...result }
UpdateReturn(p) == Ok([type |-> "list", row |-> CHOOSE row \in txn[p].res : TRUE])

---------------------------------------------------------------------------
\* deleteList

DeleteRequests == [op : {"deleteList"}, userId : Users, listId : ListIds]

\* A row of a dependent table references the list (foreign keys with
\* onDelete: "no action").
Referenced(l) ==
  \/ RowCount(listLikes, l) > 0
  \/ RowCount(listSaves, l) > 0
  \/ \E row \in listItem : row.listId = l
  \/ \E row \in Range(listSlugHistory) : row.listId = l
  \/ \E row \in listView : row.listId = l

\* select id from list where userId and id; 404 when there is no such row.
DeleteSelect(p) ==
  /\ pc[p] = "x_select"
  /\ LET r == req[p]
         found == r.listId \in DOMAIN list /\ list[r.listId].userId = r.userId
     IN IF ~found THEN Throw(p, 404) ELSE Goto(p, "x_delete", txn[p])
  /\ UNCHANGED <<store, listItemSeq, clock, client>>

\* delete from list where id and userId, returning the row.
DeleteDelete(p) ==
  /\ pc[p] = "x_delete"
  /\ ~RowLockedByOther(p, req[p].listId)
  /\ ~RowReferencedByOther(p, req[p].listId)
  /\ LET r == req[p]
         found == r.listId \in DOMAIN list /\ list[r.listId].userId = r.userId
     IN IF found /\ ~Referenced(r.listId)
        THEN /\ list' = [l \in DOMAIN list \ {r.listId} |-> list[l]]
             /\ Return(p, Ok(list[r.listId]))
        ELSE /\ Throw(p, 500)   \* foreign-key violation, or no row deleted
             /\ UNCHANGED list
  /\ UNCHANGED <<listLikes, listSaves, listItem, listSlugHistory, listView,
                 listItemSeq, review, clock, client>>

\* PATCH /lists/:listId calls authorizeOwner, then updateList;
\* DELETE /lists/:listId calls deleteList.
BeginListOp(p) ==
  \E r \in AuthorizeRequests \cup UpdateRequests \cup DeleteRequests : Begin(p, r)

---------------------------------------------------------------------------
\* The end of db.transaction

ApplyJoinAnyKind(tbl, p, field) ==
  IF IsToggle(p)
  THEN [tbl EXCEPT ![<<req[p].userId, req[p].listId>>] =
          @ - txn[p].del + txn[p].ins]
  ELSE tbl

\* The rows of the transaction's join table, the committed ones changed by
\* its insert or delete.
ApplyJoin(tbl, p, field) ==
  IF IsToggle(p) /\ req[p].field = field
  THEN [tbl EXCEPT ![<<req[p].userId, req[p].listId>>] =
          @ - txn[p].del + txn[p].ins]
  ELSE tbl

ApplyList(p) ==
  IF txn[p].upd = {} THEN list
  ELSE [list EXCEPT ![req[p].listId] = CHOOSE row \in txn[p].upd : TRUE]

\* What the service function returns once its transaction has resolved.
ServiceReturn(p) ==
  CASE IsToggle(p) -> ToggleReturn(p)
    [] req[p].op = "addListItem" -> ItemReturn(p)
    [] req[p].op = "updateList" -> UpdateReturn(p)

\* COMMIT: the writes become visible together and the locks are released.
Commit(p) ==
  /\ pc[p] = "commit"
  /\ listLikes' = ApplyJoin(listLikes, p, "like")
  /\ listSaves' = ApplyJoin(listSaves, p, "save")
  /\ list' = ApplyList(p)
  /\ listItem' = listItem \cup txn[p].items
  /\ listSlugHistory' = listSlugHistory \o txn[p].hist
  /\ ret' = [ret EXCEPT ![p] = ServiceReturn(p)]
  /\ txn' = [txn EXCEPT ![p] = NoTxn]
  /\ pc' = [pc EXCEPT ![p] = "done"]
  /\ UNCHANGED <<listView, listItemSeq, review, clock, client>>

AbortKeepsJoinWrite(p) ==
  /\ InTxn(p)
  /\ pc' = [pc EXCEPT ![p] = "done"]
  /\ txn' = [txn EXCEPT ![p] = NoTxn]
  /\ ret' = [ret EXCEPT ![p] = Aborted(pc[p])]
  /\ listLikes' = ApplyJoin(listLikes, p, "like")
  /\ listSaves' = ApplyJoin(listSaves, p, "save")
  /\ UNCHANGED <<list, listItem, listSlugHistory, listView, listItemSeq, review,
                 clock, client>>

\* The transaction fails part-way (a statement errors, the connection drops,
\* the process dies): the store rolls every write of it back.
Abort(p) ==
  /\ InTxn(p)
  /\ pc' = [pc EXCEPT ![p] = "done"]
  /\ txn' = [txn EXCEPT ![p] = NoTxn]
  /\ ret' = [ret EXCEPT ![p] = Aborted(pc[p])]
  /\ UNCHANGED <<store, listItemSeq, clock, client>>

\* The response is sent; the process is free for the next request.
Finish(p) ==
  /\ pc[p] = "done"
  /\ pc' = [pc EXCEPT ![p] = "idle"]
  /\ last' = IF audit
             THEN [last EXCEPT ![p] = [req |-> req[p], ret |-> ret[p],
                                       pre |-> pre[p]]]
             ELSE last
  /\ req' = [req EXCEPT ![p] = NoReq]
  /\ ret' = [ret EXCEPT ![p] = NoRet]
  /\ pre' = [pre EXCEPT ![p] = NoPre]
  /\ UNCHANGED <<store, listItemSeq, clock, txn, quota, audit>>

\* Time passes.
Tick ==
  /\ clock < MaxTime
  /\ clock' = clock + 1
  /\ UNCHANGED <<store, listItemSeq, pc, req, txn, ret, quota, audit, pre, last>>

---------------------------------------------------------------------------
\* Ratings: validateRating and the column numeric(2, 1)

\* The rating strings of the model.
RatingInputs ==
  {"abc", "", "0.5", " 7.5 ", "4.7", "4.5000000001", "9.5", "10", "10.5"}

\* String.prototype.trim on the rating strings of the model.
TrimRating(raw) ==
  CASE raw = " 7.5 " -> "7.5"
    [] OTHER -> raw

\* A number is written as c hundredths plus f units of 1e-10, 0 <= f < 1e8.
Num(c, f) == [c |-> c, f |-> f]

\* Number(s) on the trimmed rating strings of the model; {} is NaN.
NumberOf(s) ==
  CASE s = "" -> {Num(0, 0)}
    [] s = "0.5" -> {Num(50, 0)}
    [] s = "7.5" -> {Num(750, 0)}
    [] s = "4.7" -> {Num(470, 0)}
    [] s = "4.5000000001" -> {Num(450, 1)}
    [] s = "9.5" -> {Num(950, 0)}
    [] s = "10" -> {Num(1000, 0)}
    [] s = "10.5" -> {Num(1050, 0)}
    [] OTHER -> {}

MinRating == 1
MaxRating == 10

\* 1e-9, in units of 1e-10.
Tolerance == 10

\* val < n and val > n for a whole number n.
Below(val, n) == val.c < n * 100
Above(val, n) == val.c > n * 100 \/ (val.c = n * 100 /\ val.f > 0)

\* Math.abs(val - Math.round(val * 2) / 2): the distance to the nearest
\* half, halves rounding up.
DistanceToHalf(val) ==
  LET h == val.c % 50
  IN IF h < 25 THEN Num(h, val.f)
     ELSE IF val.f = 0 THEN Num(50 - h, 0)
     ELSE Num(49 - h, 100000000 - val.f)

\* validateRating(raw): {} for null (success), else the message.
ValidateRating(raw) ==
  LET parsed == NumberOf(TrimRating(raw))
  IN IF parsed = {} THEN {"Rating must be a valid number"}
     ELSE LET val == CHOOSE v \in parsed : TRUE
          IN IF Below(val, MinRating) \/ Above(val, MaxRating)
             THEN {"Rating must be between 1 and 10"}
             ELSE IF DistanceToHalf(val).c > 0
                     \/ DistanceToHalf(val).f > Tolerance
             THEN {"Rating must be in 0.5 increments"}
             ELSE {}

NumericPrecision == 2
NumericScale == 1

RECURSIVE Pow10(_)
Pow10(n) == IF n = 0 THEN 1 ELSE 10 * Pow10(n - 1)

\* A rating string as the column numeric(2, 1) takes it: rounded to one
\* decimal, in tenths; {} when it overflows the precision.
AsNumeric(s) ==
  LET val == CHOOSE v \in NumberOf(s) : TRUE
      tenths == (val.c \div 10) + (IF val.c % 10 >= 5 THEN 1 ELSE 0)
  IN IF tenths >= Pow10(NumericPrecision - NumericScale) * Pow10(NumericScale)
     THEN {} ELSE {tenths}

---------------------------------------------------------------------------
\* Reviews: addReview, getReview, updateReview, getAvgRating

ReviewKeys == Users \X MediaTypes \X MediaIds

ReviewRequests ==
  [op : {"addReview"}, userId : Users, mediaType : MediaTypes,
   mediaId : MediaIds, rating : RatingInputs]
  \cup [op : {"getReview"}, userId : Users, mediaType : MediaTypes,
        mediaId : MediaIds]
  \cup [op : {"updateReview"}, userId : Users, mediaType : MediaTypes,
        mediaId : MediaIds, field : {"liked", "watched"}, value : BOOLEAN]
  \cup [op : {"getAvgRating"}, mediaType : MediaTypes, mediaId : MediaIds]
  \cup [op : {"deleteReview"}, userId : Users, mediaType : MediaTypes,
        mediaId : MediaIds]

BeginReview(p) == \E r \in ReviewRequests : Begin(p, r)

ReviewKey(r) == <<r.userId, r.mediaType, r.mediaId>>

\* The review tables with the row of key k set to row.
WithReview(k, row) ==
  [j \in DOMAIN review \cup {k} |-> IF j = k THEN row ELSE review[j]]

\* const error = validateRating(rating); 400 when it is not null.
AddReviewValidate(p) ==
  /\ pc[p] = "w_validate"
  /\ IF ValidateRating(TrimRating(req[p].rating)) # {}
     THEN Throw(p, 400)
     ELSE Goto(p, "w_upsert", txn[p])
  /\ UNCHANGED <<store, listItemSeq, clock, client>>

AddReviewReplacesRow(p) ==
  /\ pc[p] = "w_upsert"
  /\ LET k == ReviewKey(req[p])
         stored == AsNumeric(TrimRating(req[p].rating))
     IN IF stored = {}
        THEN Throw(p, 500) /\ UNCHANGED review
        ELSE LET row == [rating |-> CHOOSE t \in stored : TRUE,
                         liked |-> FALSE, watched |-> TRUE, review |-> {},
                         createdAt |-> clock, updatedAt |-> clock]
             IN /\ review' = WithReview(k, row)
                /\ Return(p, Ok(row))
  /\ UNCHANGED <<list, listLikes, listSaves, listItem, listSlugHistory,
                 listView, listItemSeq, clock, client>>

\* insert ... values({rating, liked: false, watched: true, review: null})
\* on conflict (userId, mediaId) do update set rating, updatedAt, returning
\* the row. A rating the column cannot hold fails the statement.
AddReviewUpsert(p) ==
  /\ pc[p] = "w_upsert"
  /\ LET k == ReviewKey(req[p])
         stored == AsNumeric(TrimRating(req[p].rating))
     IN IF stored = {}
        THEN Throw(p, 500) /\ UNCHANGED review
        ELSE LET rating == CHOOSE t \in stored : TRUE
                 row == IF k \in DOMAIN review
                        THEN [review[k] EXCEPT !.rating = rating,
                                               !.updatedAt = clock]
                        ELSE [rating |-> rating,
                              liked |-> FALSE, watched |-> TRUE, review |-> {},
                              createdAt |-> clock, updatedAt |-> clock]
             IN /\ review' = WithReview(k, row)
                /\ Return(p, Ok(row))
  /\ UNCHANGED <<list, listLikes, listSaves, listItem, listSlugHistory,
                 listView, listItemSeq, clock, client>>

\* select liked, watched, review, rating where userId and mediaId;
\* `[result]` is the row or undefined.
GetReview(p) ==
  /\ pc[p] = "w_get"
  /\ LET k == ReviewKey(req[p])
     IN Return(p, IF k \in DOMAIN review
                  THEN Ok([liked |-> review[k].liked,
                           watched |-> review[k].watched,
                           review |-> review[k].review,
                           rating |-> review[k].rating])
                  ELSE Undefined)
  /\ UNCHANGED <<store, listItemSeq, clock, client>>

\* update set {[field]: value, updatedAt: new Date()} where userId and
\* mediaId, returning the rows.
UpdateReview(p) ==
  /\ pc[p] = "w_update"
  /\ LET k == ReviewKey(req[p])
     IN IF k \in DOMAIN review
        THEN LET row == IF req[p].field = "liked"
                        THEN [review[k] EXCEPT !.liked = req[p].value,
                                               !.updatedAt = clock]
                        ELSE [review[k] EXCEPT !.watched = req[p].value,
                                               !.updatedAt = clock]
             IN /\ review' = WithReview(k, row)
                /\ Return(p, Ok({row}))
        ELSE /\ Return(p, Ok({}))
             /\ UNCHANGED review
  /\ UNCHANGED <<list, listLikes, listSaves, listItem, listSlugHistory,
                 listView, listItemSeq, clock, client>>

\* delete where userId, mediaType and mediaId, returning: `[result]` is the
\* deleted row or undefined.
DeleteReview(p) ==
  /\ pc[p] = "w_delete"
  /\ LET k == ReviewKey(req[p])
     IN IF k \in DOMAIN review
        THEN /\ review' = [j \in DOMAIN review \ {k} |-> review[j]]
             /\ Return(p, Ok(review[k]))
        ELSE /\ Return(p, Undefined)
             /\ UNCHANGED review
  /\ UNCHANGED <<list, listLikes, listSaves, listItem, listSlugHistory,
                 listView, listItemSeq, clock, client>>

\* The review rows of one media.
ReviewsOf(reviews, mediaType, mediaId) ==
  {k \in DOMAIN reviews : k[2] = mediaType /\ k[3] = mediaId}

\* avg(rating): NULL over no rows, else the sum of the ratings (in tenths)
\* over their number.
Avg(reviews, keys) ==
  IF keys = {} THEN {}
  ELSE {[sum |-> SumOver(keys, [k \in keys |-> reviews[k].rating]),
         over |-> Cardinality(keys)]}

AvgResultZero(reviews, mediaType, mediaId) ==
  LET keys == ReviewsOf(reviews, mediaType, mediaId)
  IN [avgRating |-> IF keys = {} THEN {[sum |-> 0, over |-> 1]}
                    ELSE Avg(reviews, keys),
      reviewCount |-> Cardinality(keys)]

\* The row the aggregate query returns.
AvgResult(reviews, mediaType, mediaId) ==
  LET keys == ReviewsOf(reviews, mediaType, mediaId)
  IN [avgRating |-> Avg(reviews, keys), reviewCount |-> Cardinality(keys)]

\* select avg(rating), count(rating) where mediaId; avgRating ?? null.
GetAvgRating(p) ==
  /\ pc[p] = "w_avg"
  /\ Return(p, Ok(AvgResult(review, req[p].mediaType, req[p].mediaId)))
  /\ UNCHANGED <<store, listItemSeq, clock, client>>

---------------------------------------------------------------------------
\* Initial states

\* Every process is idle and may take the requests `quotas` gives it.
InitProcs(quotas, audited) ==
  /\ pc = [p \in Procs |-> "idle"]
  /\ quota = quotas
  /\ req = [p \in Procs |-> NoReq]
  /\ txn = [p \in Procs |-> NoTxn]
  /\ ret = [p \in Procs |-> NoRet]
  /\ audit = audited
  /\ pre = [p \in Procs |-> NoPre]
  /\ last = [p \in Procs |-> NoLast]

\* One list of u1, nothing else; list 2 does not exist.
InitStore ==
  /\ list = [l \in {1} |-> NewList("u1", "Heat", "heat")]
  /\ listLikes = EmptyJoin
  /\ listSaves = EmptyJoin
  /\ listItem = {}
  /\ listItemSeq = 0
  /\ listSlugHistory = <<>>
  /\ listView = {}
  /\ review = NoReviews
  /\ clock = 0

---------------------------------------------------------------------------
\* Spec: the like/save ledger under concurrent requests and failures.

AnyNumber == [p \in Procs |-> {}]

OnlyP1 == [p \in Procs |-> IF p = "p1" THEN {} ELSE {0}]

OneEach == [p \in Procs |-> {1}]

Init == InitStore /\ InitProcs(AnyNumber, FALSE)

Next ==
  \E p \in Procs :
    \/ BeginToggle(p)
    \/ AddInsert(p)
    \/ AddSelect(p)
    \/ AddUpdate(p)
    \/ DelDelete(p)
    \/ DelSelect(p)
    \/ DelUpdate(p)
    \/ Commit(p)
    \/ Abort(p)
    \/ Finish(p)

Spec == Init /\ [][Next]_vars

\* SpecSeq: one client toggling, call after call, no failure injected.

InitSeq == InitStore /\ InitProcs(OnlyP1, TRUE)

NextSeq ==
  \E p \in Procs :
    \/ BeginToggle(p)
    \/ AddInsert(p)
    \/ AddSelect(p)
    \/ AddUpdate(p)
    \/ DelDelete(p)
    \/ DelSelect(p)
    \/ DelUpdate(p)
    \/ Commit(p)
    \/ Finish(p)

SpecSeq == InitSeq /\ [][NextSeq]_vars

\* SpecDrift: the ledger started from any counters and join rows.

InitDrift ==
  /\ \E lc \in 0..MaxCount, sc \in 0..MaxCount :
       list = [l \in {1} |-> [NewList("u1", "Heat", "heat")
                                EXCEPT !.likeCount = lc, !.saveCount = sc]]
  /\ listLikes \in [JoinKeys -> {0, 1}]
  /\ listSaves \in [JoinKeys -> {0, 1}]
  /\ \A k \in JoinKeys : k[2] # 1 => listLikes[k] = 0 /\ listSaves[k] = 0
  /\ listItem = {}
  /\ listItemSeq = 0
  /\ listSlugHistory = <<>>
  /\ listView = {}
  /\ review = NoReviews
  /\ clock = 0
  /\ InitProcs(OnlyP1, FALSE)

SpecDrift == InitDrift /\ [][Next]_vars

\* SpecRace: two clients, one call each, from any consistent ledger.

InitRace ==
  /\ listLikes \in [JoinKeys -> {0, 1}]
  /\ listSaves \in [JoinKeys -> {0, 1}]
  /\ \A k \in JoinKeys : k[2] # 1 => listLikes[k] = 0 /\ listSaves[k] = 0
  /\ list = [l \in {1} |-> [NewList("u1", "Heat", "heat")
                              EXCEPT !.likeCount = RowCount(listLikes, 1),
                                     !.saveCount = RowCount(listSaves, 1)]]
  /\ listItem = {}
  /\ listItemSeq = 0
  /\ listSlugHistory = <<>>
  /\ listView = {}
  /\ review = NoReviews
  /\ clock = 0
  /\ InitProcs(OneEach, TRUE)

SpecRace == InitRace /\ [][Next]_vars

\* SpecItems: concurrent POST /list-items requests while time passes.

NextItems ==
  \/ \E p \in Procs :
       \/ BeginItem(p)
       \/ ItemOwned(p)
       \/ ItemExisting(p)
       \/ ItemInsert(p)
       \/ ItemTouch(p)
       \/ Commit(p)
       \/ Finish(p)
  \/ Tick

InitItems == InitStore /\ InitProcs(AnyNumber, FALSE)

SpecItems == InitItems /\ [][NextItems]_vars

\* SpecItemsSeq: one client adding items, call after call.

InitItemsSeq == InitStore /\ InitProcs(OnlyP1, TRUE)

SpecItemsSeq == InitItemsSeq /\ [][NextItems]_vars

\* SpecOwner: one client running the ownership-checked list operations,
\* call after call, on a list that is liked by another user or by nobody.

InitOwner ==
  /\ \E liked \in {0, 1} :
       /\ listLikes = [EmptyJoin EXCEPT ![<<"u2", 1>>] = liked]
       /\ list = [l \in {1} |-> [NewList("u1", "Heat", "heat")
                                   EXCEPT !.likeCount = liked]]
  /\ listSaves = EmptyJoin
  /\ listItem = {}
  /\ listItemSeq = 0
  /\ listSlugHistory = <<>>
  /\ listView = {}
  /\ review = NoReviews
  /\ clock = 0
  /\ InitProcs(OnlyP1, TRUE)

NextOwner ==
  \/ \E p \in Procs :
       \/ BeginListOp(p)
       \/ AuthorizeOwner(p)
       \/ UpdSelect(p)
       \/ UpdHistory(p)
       \/ UpdGenerate(p)
       \/ UpdSlug(p)
       \/ UpdUpdate(p)
       \/ DeleteSelect(p)
       \/ DeleteDelete(p)
       \/ Commit(p)
       \/ Finish(p)
  \/ Tick

SpecOwner == InitOwner /\ [][NextOwner]_vars

---------------------------------------------------------------------------
\* Claims about the like/save ledger

Counter(l, field) == ActionCol(list[l], field)

Rows(l, field) == RowCount(ActionTable(field), l)

PreRows(snapshot, r) ==
  (IF r.field = "like" THEN snapshot.listLikes ELSE snapshot.listSaves)
    [<<r.userId, r.listId>>]

PreCounter(snapshot, r) == ActionCol(snapshot.list[r.listId], r.field)

\* C1: started from counters equal to the join-table row counts, in every
\* committed state, after any interleaving of addListAction and
\* deleteListAction calls (and failed transactions), each list's likeCount is
\* the number of its list_likes rows and its saveCount the number of its
\* list_saves rows.
C1_CountersTrackRows ==
  \A l \in DOMAIN list :
    /\ list[l].likeCount = RowCount(listLikes, l)
    /\ list[l].saveCount = RowCount(listSaves, l)

\* A deleteListAction has brought a list liked twice down to one like.
C1_Witness ==
  \E p \in Procs :
    /\ pc[p] = "done"
    /\ req[p].op = "deleteListAction"
    /\ ret[p] = Ok([field |-> "like", count |-> 1])
    /\ list[1].likeCount = 1
    /\ RowCount(listLikes, 1) = 1
    /\ list[1].saveCount = 2

\* C2: two addListAction calls for the same (userId, listId, field) that ran
\* concurrently (both began in the same committed state, the pair absent)
\* and both returned leave exactly one join row for the pair and the counter
\* exactly 1 above its value before them.
C2_ConcurrentToggleOnCountsOnce ==
  \A p, q \in Procs :
    ( /\ p # q
      /\ pc[p] = "done" /\ pc[q] = "done"
      /\ req[p].op = "addListAction"
      /\ req[q] = req[p]
      /\ pre[p] = pre[q]
      /\ req[p].listId \in DOMAIN pre[p].list
      /\ PreRows(pre[p], req[p]) = 0
      /\ ret[p].kind = "ok" /\ ret[q].kind = "ok" )
    => /\ ActionTable(req[p].field)[<<req[p].userId, req[p].listId>>] = 1
       /\ Counter(req[p].listId, req[p].field) = PreCounter(pre[p], req[p]) + 1

\* Both calls of such a race have returned, the counter having started at 1.
C2_Witness ==
  \E p, q \in Procs :
    /\ p # q
    /\ pc[p] = "done" /\ pc[q] = "done"
    /\ req[p].op = "addListAction"
    /\ req[q] = req[p]
    /\ pre[p] = pre[q]
    /\ req[p].listId \in DOMAIN pre[p].list
    /\ PreRows(pre[p], req[p]) = 0
    /\ PreCounter(pre[p], req[p]) = 1
    /\ ret[p].kind = "ok" /\ ret[q].kind = "ok"
    /\ ret[p] = ret[q]

\* C3: addListAction called twice in a row with the same arguments on an
\* existing list, the pair absent before the first call: the second call
\* returns a value (no error), the same value as the first, and the counter
\* is exactly 1 above its value before the first call.
C3_ToggleOnTwice ==
  \A p \in Procs :
    ( /\ pc[p] = "done"
      /\ req[p].op = "addListAction"
      /\ last[p].req = req[p]
      /\ req[p].listId \in DOMAIN last[p].pre.list
      /\ PreRows(last[p].pre, req[p]) = 0 )
    => /\ ret[p].kind = "ok"
       /\ ret[p] = last[p].ret
       /\ Counter(req[p].listId, req[p].field)
            = PreCounter(last[p].pre, req[p]) + 1

\* The second of two such calls has returned 2 (another user's like was there).
C3_Witness ==
  \E p \in Procs :
    /\ pc[p] = "done"
    /\ req[p].op = "addListAction"
    /\ last[p].req = req[p]
    /\ req[p].listId \in DOMAIN last[p].pre.list
    /\ PreRows(last[p].pre, req[p]) = 0
    /\ PreCounter(last[p].pre, req[p]) = 1
    /\ ret[p] = Ok([field |-> req[p].field, count |-> 2])

\* C4: deleteListAction for a pair with no join row, on an existing list,
\* deletes nothing, leaves likeCount and saveCount (and the rest of the
\* store) as they were, and returns the current counter of its field.
C4_ToggleOffAbsent ==
  \A p \in Procs :
    ( /\ pc[p] = "done"
      /\ req[p].op = "deleteListAction"
      /\ req[p].listId \in DOMAIN pre[p].list
      /\ PreRows(pre[p], req[p]) = 0 )
    => /\ ret[p] = Ok([field |-> req[p].field,
                       count |-> PreCounter(pre[p], req[p])])
       /\ Snapshot = pre[p]

\* Such a call has returned a counter of 1: the list is liked by the other user.
C4_Witness ==
  \E p \in Procs :
    /\ pc[p] = "done"
    /\ req[p].op = "deleteListAction"
    /\ req[p].listId \in DOMAIN pre[p].list
    /\ PreRows(pre[p], req[p]) = 0
    /\ ret[p] = Ok([field |-> "like", count |-> 1])

\* C5: from any initial state with non-negative counters, drifted or not,
\* likeCount >= 0 and saveCount >= 0 in every reachable state, and a
\* deleteListAction that deleted a row commits a counter 1 lower, or 0 when
\* it was 0 already.
C5_CountersNeverNegative ==
  /\ [](\A l \in DOMAIN list : list[l].likeCount >= 0 /\ list[l].saveCount >= 0)
  /\ [][\A p \in Procs :
          ( /\ pc[p] = "commit" /\ pc'[p] = "done"
            /\ req[p].op = "deleteListAction"
            /\ txn[p].del > 0
            /\ ret'[p].kind = "ok" )
          => LET l == req[p].listId
                 f == req[p].field
             IN ActionCol(list'[l], f) =
                  IF Counter(l, f) > 0 THEN Counter(l, f) - 1 ELSE 0]_vars

\* A deleteListAction has deleted a row of a list whose counter had drifted
\* to 0 and is about to commit the counter 0.
C5_Witness ==
  \E p \in Procs :
    /\ pc[p] = "commit"
    /\ req[p].op = "deleteListAction"
    /\ req[p].field = "like"
    /\ txn[p].del = 1
    /\ list[1].likeCount = 0
    /\ \E row \in txn[p].upd : row.likeCount = 0

\* C6: a toggle is atomic.  Every step changes the number of a list's join
\* rows of a field exactly when it changes that list's counter of the field,
\* and a transaction that fails at any statement leaves the committed store
\* as it was.
C6_ToggleAtomic ==
  [][ /\ \A l \in DOMAIN list, f \in Fields :
           (Rows(l, f)' # Rows(l, f)) <=> (Counter(l, f)' # Counter(l, f))
      /\ \A p \in Procs :
           (InTxn(p) /\ ret'[p].kind = "error") => store' = store ]_vars

\* An addListAction failed after its insert and before its counter update;
\* the committed store shows neither.
C6_Witness ==
  \E p \in Procs :
    /\ pc[p] = "done"
    /\ req[p].op = "addListAction"
    /\ ret[p] = Aborted("a_update")
    /\ ActionTable(req[p].field)[<<req[p].userId, req[p].listId>>] = 0
    /\ Counter(req[p].listId, req[p].field) = 0

---------------------------------------------------------------------------
\* Claims about list membership

\* The list_item rows of one media on one list.
ItemsOf(items, l, t, movieId, seriesId) ==
  {row \in items :
     /\ row.listId = l
     /\ row.mediaType = t
     /\ IF t = "movie" THEN row.movieId = movieId ELSE row.seriesId = seriesId}

ItemsOfRequest(items, r) ==
  ItemsOf(items, r.listId, r.mediaType, r.movieId, r.seriesId)

Owns(snapshot, u, l) == l \in DOMAIN snapshot.list /\ snapshot.list[l].userId = u

\* C7: the owner calls addListItem twice in a row with the same arguments,
\* the media not on the list before: the first call returns created = true,
\* the second created = false with the item of the first, and list_item
\* holds exactly one row for that (listId, mediaType, mediaId).
C7_AddItemTwice ==
  \A p \in Procs :
    ( /\ pc[p] = "done"
      /\ req[p].op = "addListItem"
      /\ last[p].req = req[p]
      /\ Owns(last[p].pre, req[p].userId, req[p].listId)
      /\ ItemsOfRequest(last[p].pre.listItem, req[p]) = {} )
    => /\ last[p].ret.kind = "ok"
       /\ last[p].ret.value.created = TRUE
       /\ ret[p] = Ok([created |-> FALSE, item |-> last[p].ret.value.item])
       /\ Cardinality(ItemsOfRequest(listItem, req[p])) = 1

\* The second of two such calls has returned, for a tv item added after a movie.
C7_Witness ==
  \E p \in Procs :
    /\ pc[p] = "done"
    /\ req[p].op = "addListItem"
    /\ req[p].mediaType = "tv"
    /\ last[p].req = req[p]
    /\ ItemsOfRequest(last[p].pre.listItem, req[p]) = {}
    /\ last[p].pre.listItem # {}
    /\ ret[p].kind = "ok"
    /\ ret[p].value.created = FALSE
    /\ Cardinality(listItem) = 2

\* C8 (as claimed): in every reachable state list_item holds at most one row
\* per (listId, movieId) for movies and per (listId, seriesId) for tv, and
\* every addListItem call of the list's owner returns {created, item}.
C8_AtMostOneRowPerMedia ==
  /\ \A a, b \in listItem :
       ( /\ a.listId = b.listId
         /\ a.mediaType = b.mediaType
         /\ a.movieId = b.movieId
         /\ a.seriesId = b.seriesId ) => a = b
  /\ \A p \in Procs :
       ( /\ pc[p] = "done"
         /\ req[p].op = "addListItem"
         /\ Owns(Snapshot, req[p].userId, req[p].listId) )
       => ret[p].kind = "ok"

\* C9 (as claimed): addListItem throws 403 when the list exists and belongs
\* to another user and 404 when no list has that id; either way nothing is
\* inserted and the list row is as it was.
C9_ForbiddenOrNotFound ==
  \A p \in Procs :
    ( /\ pc[p] = "done"
      /\ req[p].op = "addListItem"
      /\ ~Owns(pre[p], req[p].userId, req[p].listId) )
    => /\ ret[p] = IF req[p].listId \in DOMAIN pre[p].list
                   THEN Thrown(403) ELSE Thrown(404)
       /\ Snapshot = pre[p]

---------------------------------------------------------------------------
\* Claims about list ownership

\* C10: authorizeOwner, updateList and deleteList called by an authenticated
\* user who does not own the list throw the same 404 whether the list
\* exists under another owner or does not exist, and leave the store as it
\* was.
C10_NonOwnerSeesNotFound ==
  \A p \in Procs :
    ( /\ pc[p] = "done"
      /\ req[p].op \in {"authorizeOwner", "updateList", "deleteList"}
      /\ req[p].userId \in Users
      /\ ~Owns(pre[p], req[p].userId, req[p].listId) )
    => /\ ret[p] = Thrown(404)
       /\ Snapshot = pre[p]

\* A non-owner has asked for a list that does not exist and then, by the same
\* operation, for one that exists under another owner; both calls threw 404.
C10_Witness ==
  \E p \in Procs :
    /\ pc[p] = "done"
    /\ req[p].op = "authorizeOwner"
    /\ req[p].userId = "u2"
    /\ req[p].listId \in DOMAIN pre[p].list
    /\ last[p].req.op = req[p].op
    /\ last[p].req.userId = "u2"
    /\ last[p].req.listId = 2
    /\ ret[p] = Thrown(404)
    /\ last[p].ret = ret[p]

---------------------------------------------------------------------------
\* SpecRemove: one client adding and removing list items, call after call.

NextRemove ==
  \/ \E p \in Procs :
       \/ BeginItem(p)
       \/ BeginRemove(p)
       \/ ItemOwned(p)
       \/ ItemExisting(p)
       \/ ItemInsert(p)
       \/ ItemTouch(p)
       \/ DeleteListItem(p)
       \/ Commit(p)
       \/ Finish(p)
  \/ Tick

InitRemove == InitStore /\ InitProcs(OnlyP1, TRUE)

SpecRemove == InitRemove /\ [][NextRemove]_vars

\* The list_item rows deleteListItem's caller may remove: the one with the
\* requested id, if it is the caller's.
OwnItem(items, r) ==
  {row \in items : row.id = r.listItemId /\ row.userId = r.userId}

\* C11: deleteListItem removes the row with the requested id exactly when it
\* exists and its userId is the caller's, and returns it; otherwise it removes
\* nothing and returns the same undefined whether the item is missing or is
\* another user's. No other list_item row is removed.
C11_DeleteOnlyOwnItem ==
  \A p \in Procs :
    (pc[p] = "done" /\ req[p].op = "deleteListItem")
    => LET own == OwnItem(pre[p].listItem, req[p])
       IN /\ listItem = pre[p].listItem \ own
          /\ Cardinality(own) <= 1
          /\ own # {} => ret[p] \in {Ok(row) : row \in own}
          /\ own = {} => ret[p] = Undefined
          /\ [Snapshot EXCEPT !.listItem = {}] = [pre[p] EXCEPT !.listItem = {}]

\* The caller was refused another user's item (nothing removed) and then
\* removed one of two items of their own, the other staying.
C11_Witness ==
  \E p \in Procs :
    /\ pc[p] = "done"
    /\ req[p].op = "deleteListItem"
    /\ ret[p].kind = "ok"
    /\ Cardinality(pre[p].listItem) = 2
    /\ Cardinality(listItem) = 1
    /\ last[p].req.op = "deleteListItem"
    /\ last[p].req.userId = "u2"
    /\ \E row \in last[p].pre.listItem : row.id = last[p].req.listItemId
    /\ last[p].ret = Undefined

---------------------------------------------------------------------------
\* SpecViewsSeq: one client recording views, call after call, as time passes.

NextViewsSeq ==
  \/ \E p \in Procs :
       \/ BeginView(p)
       \/ ViewGuard(p)
       \/ ViewSelect(p)
       \/ ViewInsert(p)
       \/ Finish(p)
  \/ Tick

Thrice == [p \in Procs |-> IF p = "p1" THEN {3} ELSE {0}]

InitViewsSeq == InitStore /\ InitProcs(Thrice, TRUE)

SpecViewsSeq == InitViewsSeq /\ [][NextViewsSeq]_vars

\* SpecViews: concurrent calls, one per client.

NextViews ==
  \/ \E p \in Procs :
       \/ BeginView(p)
       \/ ViewGuard(p)
       \/ ViewSelect(p)
       \/ ViewInsert(p)
       \/ ViewFail(p)
       \/ Finish(p)
  \/ Tick

InitViews == InitStore /\ InitProcs(OneEach, TRUE)

SpecViews == InitViews /\ [][NextViews]_vars

\* The list_views rows of the request's list recorded for its userId or its
\* address.
ViewsOf(views, r) ==
  {row \in views :
     /\ row.listId = r.listId
     /\ \/ r.userId # "" /\ row.userId = {r.userId}
        \/ r.ipAddress # {} /\ row.ipAddress = HashedIp(r)}

ValidView(r) == r.listId > 0 /\ (r.userId # "" \/ r.ipAddress # {})

\* C12: a trackUniqueView call made less than 24 hours after a list_views
\* row of its list and identity was created inserts nothing and reports
\* alreadyViewed; one made more than 24 hours after every such row inserts
\* exactly one row.
C12_OneViewPerWindow ==
  \A p \in Procs :
    ( /\ pc[p] = "done"
      /\ req[p].op = "trackUniqueView"
      /\ ValidView(req[p])
      /\ req[p].listId \in DOMAIN list )
    => LET seen == ViewsOf(pre[p].listView, req[p])
           now == txn[p].now
       IN /\ (\E row \in seen : now - row.createdAt < DayMs)
             => ret[p] = Ok(AlreadyViewed) /\ listView = pre[p].listView
          /\ (\A row \in seen : now - row.createdAt > DayMs)
             => /\ ret[p] = Ok(ViewLogged)
                /\ pre[p].listView \subseteq listView
                /\ Cardinality(listView \ pre[p].listView) = 1
                /\ ViewsOf(listView \ pre[p].listView, req[p]) # {}

\* A third call, of the same arguments, has recorded a second row after the
\* second call was reported as already viewed.
C12_Witness ==
  \E p \in Procs :
    /\ pc[p] = "done"
    /\ req[p].op = "trackUniqueView"
    /\ last[p].req = req[p]
    /\ last[p].ret = Ok(AlreadyViewed)
    /\ ret[p] = Ok(ViewLogged)
    /\ Cardinality(ViewsOf(listView, req[p])) = 2
    /\ Cardinality(listView) = 2

\* C13 (as claimed): no two list_views rows of one list and one identity
\* (the same userId, or the same hashed address) are created less than 24
\* hours apart, however concurrent calls interleave.
C13_OneViewPerWindowConcurrently ==
  \A a, b \in listView :
    ( /\ a # b
      /\ a.listId = b.listId
      /\ SqlEq(a.userId, b.userId) \/ SqlEq(a.ipAddress, b.ipAddress) )
    => \/ a.createdAt - b.createdAt >= DayMs
       \/ b.createdAt - a.createdAt >= DayMs

\* C14: trackUniqueView called without userId and address, or with a listId
\* that is zero or negative, inserts no list_views row and returns a result
\* object (success false) instead of throwing.
C14_InvalidViewIsNoOp ==
  \A p \in Procs :
    ( /\ pc[p] = "done"
      /\ req[p].op = "trackUniqueView"
      /\ ~ValidView(req[p]) )
    => /\ ret[p] \in {Ok(InvalidInput), Ok(ViewError)}
       /\ (req[p].listId = 0 \/ (req[p].userId = "" /\ req[p].ipAddress = {}))
          => ret[p] = Ok(InvalidInput)
       /\ Snapshot = pre[p]

\* A call with a negative listId has returned after the views table had rows.
C14_Witness ==
  \E p \in Procs :
    /\ pc[p] = "done"
    /\ req[p].op = "trackUniqueView"
    /\ req[p].listId < 0
    /\ req[p].userId # ""
    /\ ret[p] = Ok(ViewError)
    /\ listView # {}
    /\ last[p].req.op = "trackUniqueView"
    /\ last[p].req.listId = 1
    /\ last[p].req.userId = "" /\ last[p].req.ipAddress = {}
    /\ last[p].ret = Ok(InvalidInput)

---------------------------------------------------------------------------
\* SpecTrack: one client reading a list page twice, the views recorded in a
\* task slot while storage may fail.

NextTrack ==
  \/ \E p \in Procs :
       \/ BeginGet(p)
       \/ GetListData(p)
       \/ GetListItems(p)
       \/ GetLikeStatus(p)
       \/ GetSaveStatus(p)
       \/ GetListFail(p)
       \/ GetRespond(p)
       \/ ViewGuard(p)
       \/ ViewSelect(p)
       \/ ViewInsert(p)
       \/ ViewFail(p)
       \/ Finish(p)
  \/ Tick

Twice == [p \in Procs |-> IF p = "p1" THEN {2} ELSE {0}]

InitTrack == InitStore /\ InitProcs(Twice, TRUE)

SpecTrack == InitTrack /\ [][NextTrack]_vars

\* C15: the response of GET /user/:username/lists/:slug is what getListData
\* read when the request ran (200 with the list's data, or 404, or the error
\* of a statement of getListData itself), in every state from the moment the
\* handler returns: whether the view recording is still running, inserted a
\* row, was deduplicated or failed; and trackUniqueView never throws.
C15_ViewRecordingNeverBlocksOrFails ==
  \A p \in Procs :
    /\ (pc[p] = "done" /\ req[p].op = "getList")
       => LET found == ListsBySlug(pre[p], req[p].username, req[p].slug)
          IN \/ ret[p] \in {Aborted(at) :
                             at \in {"g_data", "g_items", "g_liked", "g_saved"}}
             \/ IF found = {} THEN ret[p] = Thrown(404)
                ELSE \E l \in found :
                       ret[p] = Response(ListData(pre[p], l, req[p].viewer))
    /\ (pc[p] = "done" /\ req[p].op = "trackUniqueView") => ret[p].kind = "ok"

\* The first request's view recording failed in storage and the second
\* request has its 200 response, the same as the first, while its view
\* recording has yet to run its insert.
C15_Witness ==
  \E p, q \in Procs :
    /\ pc[p] = "done"
    /\ req[p].op = "getList"
    /\ ret[p].kind = "ok"
    /\ last[p].req = req[p]
    /\ last[p].ret = ret[p]
    /\ last[q].req.op = "trackUniqueView"
    /\ last[q].ret = Ok(ViewError)
    /\ pc[q] = "v_insert"

---------------------------------------------------------------------------
\* SpecRead: a list page read while another client toggles a like or a save;
\* the statements of getListData run between those of the toggle, and the
\* page may show a counter and a flag of different moments.

\* A request whose address the server does not know: no view is recorded.
BeginRead(p) ==
  \E r \in GetRequests : r.ipAddress = {} /\ Begin(p, r)

NextRead ==
  \E p \in Procs :
    \/ BeginRead(p)
    \/ GetListData(p)
    \/ GetListItems(p)
    \/ GetLikeStatus(p)
    \/ GetSaveStatus(p)
    \/ GetListFail(p)
    \/ GetRespond(p)
    \/ BeginToggle(p)
    \/ AddInsert(p)
    \/ AddSelect(p)
    \/ AddUpdate(p)
    \/ DelDelete(p)
    \/ DelSelect(p)
    \/ DelUpdate(p)
    \/ Commit(p)
    \/ Abort(p)
    \/ Finish(p)

InitRead ==
  /\ listLikes = [EmptyJoin EXCEPT ![<<"u2", 1>>] = 1]
  /\ list = [l \in {1} |-> [NewList("u1", "Heat", "heat")
                              EXCEPT !.likeCount = 1]]
  /\ listSaves = EmptyJoin
  /\ listItem = {}
  /\ listItemSeq = 0
  /\ listSlugHistory = <<>>
  /\ listView = {}
  /\ review = NoReviews
  /\ clock = 0
  /\ InitProcs(OneEach, TRUE)

SpecRead == InitRead /\ [][NextRead]_vars

---------------------------------------------------------------------------
\* SpecCreateSeq: one client creating lists, call after call. List 1 has
\* kept its name, or was named "The Matrix" once.

NextCreateSeq ==
  \E p \in Procs :
    \/ BeginCreate(p)
    \/ CreateParse(p)
    \/ CreateGenerate(p)
    \/ CreateSlug(p)
    \/ CreateInsert(p)
    \/ Finish(p)

InitCreateSeq ==
  /\ list = [l \in {1} |-> NewList("u1", "Heat", "heat")]
  /\ listLikes = EmptyJoin
  /\ listSaves = EmptyJoin
  /\ listItem = {}
  /\ listItemSeq = 0
  /\ listSlugHistory \in {<<>>, <<[listId |-> 1, oldSlug |-> "the-matrix"]>>}
  /\ listView = {}
  /\ review = NoReviews
  /\ clock = 0
  /\ InitProcs(Thrice, TRUE)

SpecCreateSeq == InitCreateSeq /\ [][NextCreateSeq]_vars

\* SpecSlugs: two clients creating and renaming lists concurrently.

NextSlugs ==
  \/ \E p \in Procs :
       \/ BeginCreate(p)
       \/ BeginUpdate(p)
       \/ CreateParse(p)
       \/ CreateGenerate(p)
       \/ CreateSlug(p)
       \/ CreateInsert(p)
       \/ UpdSelect(p)
       \/ UpdHistory(p)
       \/ UpdGenerate(p)
       \/ UpdSlug(p)
       \/ UpdUpdate(p)
       \/ Commit(p)
       \/ Finish(p)
  \/ Tick

InitSlugs == InitStore /\ InitProcs(OneEach, FALSE)

SpecSlugs == InitSlugs /\ [][NextSlugs]_vars

---------------------------------------------------------------------------
\* Claims about slugs

\* The slugs generateSlug can return for a base slug.
Family(baseSlug) == {baseSlug} \cup {Suffixed(baseSlug, i) : i \in 1..MaxLists}

\* The n-th slug allocated for a base slug, counting from 0.
Nth(baseSlug, n) == IF n = 0 THEN baseSlug ELSE Suffixed(baseSlug, n)

\* C16 (as claimed): when an owner's k earlier lists of a title hold the only
\* uses of the title's slugs, creating one more list of that title gives it
\* the base slug for k = 0 and base-k otherwise: "the-matrix",
\* "the-matrix-1", "the-matrix-2".
C16_SlugSequence ==
  \A p \in Procs :
    ( /\ pc[p] = "done"
      /\ req[p].op = "createList"
      /\ ret[p].kind = "ok" )
    => LET listName == ret[p].value.row.name
           baseSlug == Slugify(listName)
           mine == {l \in DOMAIN pre[p].list :
                      /\ pre[p].list[l].userId = req[p].userId
                      /\ pre[p].list[l].slug \in Family(baseSlug)}
       IN ( /\ \A l \in mine : pre[p].list[l].name = listName
            /\ \A row \in Range(pre[p].listSlugHistory) :
                 row.oldSlug \notin Family(baseSlug) )
          => ret[p].value.row.slug = Nth(baseSlug, Cardinality(mine))

\* C17 (as claimed): no two live lists of one owner have the same slug.
C17_SlugsUniquePerOwner ==
  \A l, k \in DOMAIN list :
    (l # k /\ list[l].userId = list[k].userId) => list[l].slug # list[k].slug

\* updateList's request changes the name of the list as the snapshot has it.
Renames(snapshot, r) ==
  /\ r.op = "updateList"
  /\ Owns(snapshot, r.userId, r.listId)
  /\ r.name # ""
  /\ r.name # snapshot.list[r.listId].name

\* The list_slug_history row a rename of the snapshot's list writes.
Retired(snapshot, r) ==
  [listId |-> r.listId, oldSlug |-> snapshot.list[r.listId].slug]

\* C18: a successful updateList that changes the name adds exactly one
\* list_slug_history row, for the renamed list and with the slug it had
\* before; the transaction holds that row before it holds the list's new
\* slug, and until it commits the store shows neither.
C18_RenameWritesOneHistoryRow ==
  \A p \in Procs :
    req[p].op = "updateList"
    => /\ (pc[p] = "done" /\ ret[p].kind = "ok")
          => listSlugHistory =
               IF Renames(pre[p], req[p])
               THEN Append(pre[p].listSlugHistory, Retired(pre[p], req[p]))
               ELSE pre[p].listSlugHistory
       /\ txn[p].upd # {} => txn[p].hist = <<Retired(pre[p], req[p])>>
       /\ pc[p] \notin {"done", "idle"} => Snapshot = pre[p]

\* A second rename of the list has committed: two history rows, the last one
\* holding the slug the first rename gave.
C18_Witness ==
  \E p \in Procs :
    /\ pc[p] = "done"
    /\ Renames(pre[p], req[p])
    /\ ret[p].kind = "ok"
    /\ Len(pre[p].listSlugHistory) = 1
    /\ Len(listSlugHistory) = 2
    /\ listSlugHistory[2].oldSlug = pre[p].list[req[p].listId].slug
    /\ list[req[p].listId].slug # pre[p].list[req[p].listId].slug

\* C19 (as claimed): after a successful rename the list's slug differs from
\* the slug of every other live list of the owner and from every oldSlug in
\* list_slug_history of the owner's lists, the row of this rename included.
C19_NewSlugIsFresh ==
  \A p \in Procs :
    (pc[p] = "done" /\ Renames(pre[p], req[p]) /\ ret[p].kind = "ok")
    => LET l == req[p].listId
           u == req[p].userId
       IN /\ \A k \in DOMAIN list :
               (k # l /\ list[k].userId = u) => list[k].slug # list[l].slug
          /\ \A row \in Range(listSlugHistory) :
               Owns(Snapshot, u, row.listId) => row.oldSlug # list[l].slug

\* C20 (as claimed): deleteList by the owner of a list with dependent rows
\* succeeds; afterwards the list row is gone and no list_item, list_likes,
\* list_saves, list_views or list_slug_history row references its id.
C20_DeleteCascades ==
  \A p \in Procs :
    ( /\ pc[p] = "done"
      /\ req[p].op = "deleteList"
      /\ Owns(pre[p], req[p].userId, req[p].listId) )
    => /\ ret[p].kind = "ok"
       /\ req[p].listId \notin DOMAIN list
       /\ ~Referenced(req[p].listId)

---------------------------------------------------------------------------
\* SpecReviews: one client rating, flagging and reading reviews, call after
\* call, as time passes.

NextReviews ==
  \/ \E p \in Procs :
       \/ BeginReview(p)
       \/ AddReviewValidate(p)
       \/ AddReviewUpsert(p)
       \/ GetReview(p)
       \/ UpdateReview(p)
       \/ GetAvgRating(p)
       \/ DeleteReview(p)
       \/ Finish(p)
  \/ Tick

\* u1's review of movie 10 as addReview("7.5") and updateReview("liked",
\* true) leave it, with a text.
SeededReviews ==
  [k \in {<<"u1", "movie", 10>>} |->
     [rating |-> 75, liked |-> TRUE, watched |-> TRUE, review |-> {"Great"},
      createdAt |-> 0, updatedAt |-> 0]]

InitReviews ==
  /\ list = [l \in {1} |-> NewList("u1", "Heat", "heat")]
  /\ listLikes = EmptyJoin
  /\ listSaves = EmptyJoin
  /\ listItem = {}
  /\ listItemSeq = 0
  /\ listSlugHistory = <<>>
  /\ listView = {}
  /\ review \in {NoReviews, SeededReviews}
  /\ clock = 0
  /\ InitProcs(Twice, TRUE)

SpecReviews == InitReviews /\ [][NextReviews]_vars

---------------------------------------------------------------------------
\* Claims about reviews

\* The rating string is a number that is a multiple of 0.5 from 1 to 10.
HalfStepInRange(raw) ==
  /\ NumberOf(TrimRating(raw)) # {}
  /\ LET val == CHOOSE v \in NumberOf(TrimRating(raw)) : TRUE
     IN /\ val.f = 0
        /\ val.c % 50 = 0
        /\ val.c >= MinRating * 100
        /\ val.c <= MaxRating * 100

\* C21 (as claimed): for every half-step rating from 1 to 10, 10 included,
\* addReview followed by getReview of the same (userId, mediaType, mediaId)
\* succeeds and returns a rating numerically equal to the one given.
C21_RatingRoundTrip ==
  \A p \in Procs :
    ( /\ pc[p] = "done"
      /\ req[p].op = "getReview"
      /\ last[p].req.op = "addReview"
      /\ ReviewKey(last[p].req) = ReviewKey(req[p])
      /\ HalfStepInRange(last[p].req.rating) )
    => /\ last[p].ret.kind = "ok"
       /\ ret[p].kind = "ok"
       /\ \A val \in NumberOf(TrimRating(last[p].req.rating)) :
            ret[p].value.rating * 10 = val.c

\* C22 (as claimed): addReview with a rating that is not a number, is
\* outside 1..10 or is not a multiple of 0.5 throws the validation error
\* (400) and leaves the review tables as they were.
C22_BadRatingRejected ==
  \A p \in Procs :
    ( /\ pc[p] = "done"
      /\ req[p].op = "addReview"
      /\ ~HalfStepInRange(req[p].rating) )
    => /\ ret[p] = Thrown(400)
       /\ review = pre[p].review

\* C23: addReview on a (userId, mediaId) that has a review changes that
\* row's rating and updatedAt only: liked, watched, the text and createdAt
\* stay, no other row changes and no row is added.
C23_ReRatingKeepsOtherFields ==
  \A p \in Procs :
    ( /\ pc[p] = "done"
      /\ req[p].op = "addReview"
      /\ ret[p].kind = "ok"
      /\ ReviewKey(req[p]) \in DOMAIN pre[p].review )
    => LET k == ReviewKey(req[p])
       IN /\ DOMAIN review = DOMAIN pre[p].review
          /\ \A j \in DOMAIN review \ {k} : review[j] = pre[p].review[j]
          /\ review[k] = [pre[p].review[k] EXCEPT
                            !.rating = review[k].rating,
                            !.updatedAt = review[k].updatedAt]
          /\ {review[k].rating} = AsNumeric(TrimRating(req[p].rating))
          /\ ret[p] = Ok(review[k])

\* A review whose watched flag updateReview had cleared, and which carries a
\* text, has been re-rated later: the flag is still cleared.
C23_Witness ==
  \E p \in Procs :
    /\ pc[p] = "done"
    /\ req[p].op = "addReview"
    /\ ret[p].kind = "ok"
    /\ last[p].req.op = "updateReview"
    /\ last[p].req.field = "watched"
    /\ last[p].req.value = FALSE
    /\ ReviewKey(last[p].req) = ReviewKey(req[p])
    /\ review[ReviewKey(req[p])].watched = FALSE
    /\ review[ReviewKey(req[p])].review # {}
    /\ review[ReviewKey(req[p])].rating # pre[p].review[ReviewKey(req[p])].rating
    /\ review[ReviewKey(req[p])].updatedAt > pre[p].review[ReviewKey(req[p])].updatedAt

\* C24: getAvgRating returns reviewCount equal to the number of review rows
\* of the media, avgRating null exactly when that number is 0, and with one
\* review of rating r the average r.
C24_AverageOfReviews ==
  \A p \in Procs :
    (pc[p] = "done" /\ req[p].op = "getAvgRating")
    => LET keys == ReviewsOf(pre[p].review, req[p].mediaType, req[p].mediaId)
       IN /\ ret[p].kind = "ok"
          /\ ret[p].value.reviewCount = Cardinality(keys)
          /\ ret[p].value.avgRating = {} <=> keys = {}
          /\ \A k \in keys :
               keys = {k} => ret[p].value.avgRating =
                               {[sum |-> pre[p].review[k].rating, over |-> 1]}

\* The average of a media without reviews was null, and after one review of
\* 7.5 it is 7.5 over one review.
C24_Witness ==
  \E p \in Procs :
    /\ pc[p] = "done"
    /\ req[p].op = "getAvgRating"
    /\ req[p].mediaType = "tv"
    /\ last[p].req.op = "addReview"
    /\ last[p].req.mediaType = "tv"
    /\ last[p].req.rating = " 7.5 "
    /\ last[p].pre.review \in {NoReviews, SeededReviews}
    /\ ret[p] = Ok([avgRating |-> {[sum |-> 75, over |-> 1]}, reviewCount |-> 1])

---------------------------------------------------------------------------
\* Claims about view identity

\* The row is of the call's list and inside the 24 hours before `now`.
InWindow(row, r, now) ==
  /\ row.listId = r.listId
  /\ row.createdAt >= now - DayMs

\* C25: a valid trackUniqueView call is answered "already viewed" exactly
\* when a row of its list inside the window carries the userId the call
\* supplies or the hash of the address it supplies; a component the call
\* does not supply matches no row, and without a match the insert is made.
C25_MatchOnSuppliedIdentity ==
  \A p \in Procs :
    ( /\ pc[p] = "done"
      /\ req[p].op = "trackUniqueView"
      /\ req[p].listId # 0
      /\ req[p].userId # "" \/ req[p].ipAddress # {} )
    => LET r == req[p]
           rows == {row \in pre[p].listView : InWindow(row, r, txn[p].now)}
           byUser == {row \in rows : r.userId # "" /\ row.userId = {r.userId}}
           byAddress == {row \in rows :
                           \E a \in r.ipAddress :
                             row.ipAddress = {GetHashedValue(a)}}
       IN /\ (ret[p] = Ok(AlreadyViewed)) <=> (byUser \cup byAddress # {})
          /\ ret[p] \in {Ok(AlreadyViewed), Ok(ViewLogged), Ok(ViewError)}
          /\ byUser \cup byAddress = {} /\ r.listId \in DOMAIN list
               => /\ ret[p] = Ok(ViewLogged)
                  /\ Cardinality(listView) = Cardinality(pre[p].listView) + 1

\* A visitor's view of list 1 was recorded by address alone; a signed-in call
\* for the same list inside the window, without an address, is recorded as a
\* view of its own; the next call, with both, is already counted.
C25_Witness ==
  \E p \in Procs :
    /\ pc[p] = "done"
    /\ req[p].op = "trackUniqueView"
    /\ req[p].userId = "u1"
    /\ req[p].ipAddress = {}
    /\ ret[p] = Ok(ViewLogged)
    /\ last[p].req.op = "trackUniqueView"
    /\ last[p].req.userId = ""
    /\ last[p].req.listId = req[p].listId
    /\ last[p].ret = Ok(ViewLogged)
    /\ \E row \in pre[p].listView :
         /\ InWindow(row, req[p], txn[p].now)
         /\ row.userId = {}
         /\ row.ipAddress # {}

---------------------------------------------------------------------------
\* Claims about slug allocation

\* C26 (as claimed): the slug a new list of owner u gets carries a numeric
\* suffix only when a list of u holds the base slug or a list of u retired
\* it; the slugs, live or retired, of other owners' lists cause no suffix.
C26_SlugScopedByOwner ==
  \A p \in Procs :
    ( /\ pc[p] = "done"
      /\ req[p].op = "createList"
      /\ ret[p].kind = "ok"
      /\ ret[p].value.row.slug # Slugify(ret[p].value.row.name) )
    => LET baseSlug == Slugify(ret[p].value.row.name)
           mine == {l \in DOMAIN pre[p].list :
                      pre[p].list[l].userId = req[p].userId}
       IN \/ \E l \in mine : pre[p].list[l].slug = baseSlug
          \/ \E row \in Range(pre[p].listSlugHistory) :
               row.listId \in mine /\ row.oldSlug = baseSlug

\* SpecGenerate: one client creating lists, each call of generateSlug running
\* on; list 1 has had up to two earlier slugs of one family.

InitGenerate ==
  /\ list = [l \in {1} |-> NewList("u1", "Heat", "heat")]
  /\ listLikes = EmptyJoin
  /\ listSaves = EmptyJoin
  /\ listItem = {}
  /\ listItemSeq = 0
  /\ listSlugHistory \in {<<>>,
                          <<[listId |-> 1, oldSlug |-> "the-matrix"]>>,
                          <<[listId |-> 1, oldSlug |-> "the-matrix"],
                            [listId |-> 1, oldSlug |-> "the-matrix-1"]>>}
  /\ listView = {}
  /\ review = NoReviews
  /\ clock = 0
  /\ InitProcs(Thrice, TRUE)

\* Each `await slugExists(...)` resolves and the loop goes on.
FairGenerate == \A p \in Procs : WF_vars(CreateSlug(p))

SpecGenerate == InitGenerate /\ [][NextCreateSeq]_vars /\ FairGenerate

\* C27: every call of generateSlug leaves its loop; while in the loop the
\* slug on trial is the base slug and then base-1, base-2, ..., each suffix
\* one more than the last, and the suffixes tried are no more than the
\* retired slugs there are. A call that leaves the loop returns its slug.
C27_GenerateSlugTerminates ==
  /\ [](\A p \in Procs :
          pc[p] = "c_slug"
          => /\ \E listName \in ParsedListName(req[p].name) :
                  txn[p].slug = Nth(Slugify(listName), txn[p].counter - 1)
             /\ txn[p].counter - 1 <= Len(listSlugHistory))
  /\ \A p \in Procs : (pc[p] = "c_slug") ~> (pc[p] = "c_insert")

\* A call has tried the base slug, -1 and then -2, and returned the last.
C27_Witness ==
  \E p \in Procs :
    /\ pc[p] = "done"
    /\ req[p].op = "createList"
    /\ ret[p].kind = "ok"
    /\ Len(pre[p].listSlugHistory) = 2
    /\ ret[p].value.row.slug = "the-matrix-2"

---------------------------------------------------------------------------
\* Claims about failures

\* C28 (as claimed): a transaction that fails on a storage error is run
\* again, so no call ends on the first failure of its transaction. The
\* services run db.transaction once a call, which makes every failure a
\* first one.
C28_FailedTransactionIsRetried ==
  [][\A p \in Procs :
       ~ ( /\ InTxn(p)
           /\ pc'[p] = "done"
           /\ ret'[p] = Aborted(pc[p]) )]_vars

\* C29: an updateList that has inserted its list_slug_history row and then
\* fails in generateSlug (a new name of more than 100 characters) ends with
\* the error and leaves the store as it was: no new history row, and the
\* list's name, slug and updatedAt unchanged. Until then the pending row is
\* not visible either.
C29_FailedRenameLeavesNoTrace ==
  \A p \in Procs :
    (req[p].op = "updateList" /\ Renames(pre[p], req[p]))
    => /\ pc[p] = "u_generate"
          => /\ txn[p].hist = <<Retired(pre[p], req[p])>>
             /\ listSlugHistory = pre[p].listSlugHistory
       /\ (pc[p] = "done" /\ ret[p].kind = "error")
          => /\ ret[p] = Thrown(400)
             /\ InvalidTitle(req[p].name)
             /\ txn[p] = NoTxn
             /\ listSlugHistory = pre[p].listSlugHistory
             /\ list = pre[p].list
             /\ Snapshot = pre[p]

\* The owner of list 1 has asked for a name of 101 characters: the call has
\* failed with 400 and the list is still "Heat" with slug "heat".
C29_Witness ==
  \E p \in Procs :
    /\ pc[p] = "done"
    /\ req[p].op = "updateList"
    /\ req[p].name = LongName
    /\ Renames(pre[p], req[p])
    /\ ret[p] = Thrown(400)
    /\ list[req[p].listId].name = "Heat"
    /\ list[req[p].listId].slug = "heat"
    /\ list[req[p].listId].updatedAt = {}

---------------------------------------------------------------------------
\* SpecFrame: one client toggling likes and saves of two lists, call after
\* call.

InitFrame ==
  /\ list = [l \in ListIds |->
               IF l = 1 THEN NewList("u1", "Heat", "heat")
               ELSE NewList("u2", "The Matrix", "the-matrix")]
  /\ listLikes = EmptyJoin
  /\ listSaves = EmptyJoin
  /\ listItem = {}
  /\ listItemSeq = 0
  /\ listSlugHistory = <<>>
  /\ listView = {}
  /\ review = NoReviews
  /\ clock = 0
  /\ InitProcs(OnlyP1, TRUE)

SpecFrame == InitFrame /\ [][NextSeq]_vars

\* The other kind of a like/save toggle.
OtherField(field) == IF field = "like" THEN "save" ELSE "like"

\* The join table of a kind, as a snapshot has it.
TableOf(snapshot, field) ==
  IF field = "like" THEN snapshot.listLikes ELSE snapshot.listSaves

\* C30: a completed addListAction or deleteListAction of one kind on list L
\* leaves the other kind's join table and L's counter of the other kind as
\* they were, leaves every other list's row as it was, and of its own join
\* table changes at most the row of its user and L.
C30_ToggleTouchesOwnKindAndList ==
  \A p \in Procs :
    (pc[p] = "done" /\ req[p].op \in {"addListAction", "deleteListAction"})
    => LET r == req[p]
           other == OtherField(r.field)
       IN /\ TableOf(Snapshot, other) = TableOf(pre[p], other)
          /\ DOMAIN list = DOMAIN pre[p].list
          /\ \A l \in DOMAIN list :
               /\ ActionCol(list[l], other) = ActionCol(pre[p].list[l], other)
               /\ l # r.listId => list[l] = pre[p].list[l]
               /\ list[l] = SetActionCol(pre[p].list[l], r.field,
                                         ActionCol(list[l], r.field))
          /\ \A k \in JoinKeys :
               k # <<r.userId, r.listId>>
               => TableOf(Snapshot, r.field)[k] = TableOf(pre[p], r.field)[k]

\* u1 has liked list 1 while list 1 had a save and list 2 a like and a save:
\* list 1's likeCount went up and the rest stands.
C30_Witness ==
  \E p \in Procs :
    /\ pc[p] = "done"
    /\ req[p] = [op |-> "addListAction", userId |-> "u1", listId |-> 1,
                 field |-> "like"]
    /\ ret[p].kind = "ok"
    /\ list[1].likeCount = pre[p].list[1].likeCount + 1
    /\ list[1].saveCount = 1
    /\ listSaves[<<"u2", 1>>] = 1
    /\ list[2].likeCount = 1
    /\ list[2].saveCount = 1

====
